---- MODULE Spec2Model ----
(***************************************************************************)
(* Grammar-constrained decoding: the matcher tree of state_machine.py over *)
(* the symbols of symbols.py, the AllowedTokens algebra of utils.py and    *)
(* the Grammar session of grammar.py.                                      *)
(*                                                                         *)
(* Strings are sequences of one-character strings.  Token ids are the      *)
(* naturals 0 .. scores_size-1; id 0 is the end-of-stream token.           *)
(*                                                                         *)
(* Spec is the session over the matcher tree.  SpecSymbols is the session  *)
(* of grammar.py over its own symbol classes, which keep their state on    *)
(* the symbols.  SpecTexts is that session reloaded with a new grammar    *)
(* text by reset(text).  SpecCalls calls the functions that keep no state  *)
(* on arguments drawn from bounded sets.  SpecHost is the host replacing   *)
(* the tokenizer and the size of the score vector around calls of          *)
(* get_token_dictionary; in the other specifications the dictionary is the *)
(* one of the test tokenizer, built once.                                  *)
(***************************************************************************)
EXTENDS Integers, Sequences, FiniteSets, TLC

VARIABLES
    rules,          \* Grammar.rules: rule name -> symbol (after validation);
                    \* in SpecSymbols the symbol objects with their state
    active,         \* the active matcher (in SpecSymbols the active
                    \* symbol), or NoMatcher
    scores,         \* the score vector as update_scores last left it
    banned_cache,   \* RegExp.banned_cache (class attribute): pattern -> ids
    allowed_cache,  \* RegExp.allowed_cache (class attribute): pattern -> ids
    pc,             \* host loop position: "mask" or "advance"
    emitted,        \* token ids fed to advance since the last reset
    unmasked,       \* TRUE while every token fed since reset was unmasked
    last,           \* what the root answered to the last advance
    raised,         \* an exception has escaped Grammar.advance
    args,           \* SpecCalls, SpecTexts: the function called and its
                    \* arguments
    ret,            \* SpecCalls, SpecTexts: what the call returned
    params,         \* script.params: token_dictionary, used_tokenizer and
                    \* scores_size
    tokenizer       \* shared.tokenizer: the tokenizer object the host has
                    \* loaded

vars == <<rules, active, scores, banned_cache, allowed_cache, pc, emitted,
          unmasked, last, raised, args, ret, params, tokenizer>>

calls == <<args, ret>>

host == <<params, tokenizer>>

\* No call is in progress.
NoArgs == [f |-> "none"]

\* ------------------------------------------------------------- bounds

\* Tokens the host feeds between two resets.
MaxSteps == 3

\* Length of the strings the functions are called on.
MaxLen == 3

\* The sets of token ids handed to combine and apply lie in 0 .. MaxIds - 1.
MaxIds == 3

\* The tokenizer objects the host loads one after the other.
MaxTokenizers == 3

\* The length of the score vectors the host hands over.
MaxSize == 3

\* ------------------------------------------------------------ strings

Min(a, b) == IF a <= b THEN a ELSE b

\* Python s[i:j] for 0 <= i, clipped at the end of s.
Slice(s, i, j) == SubSeq(s, i + 1, Min(j, Len(s)))

\* Python s[-i:] for 1 <= i <= len(s).
Tail_(s, i) == SubSeq(s, Len(s) - i + 1, Len(s))

NL == "\n"

RECURSIVE suffix_scan(_, _, _)
suffix_scan(suffix_from, prefix_from, i) ==
    IF i <= Min(Len(suffix_from), Len(prefix_from))
       /\ Tail_(suffix_from, i) = Slice(prefix_from, 0, i)
    THEN suffix_scan(suffix_from, prefix_from, i + 1)
    ELSE i

\* The loop of get_suffix_prefix: i grows while the i-suffix of suffix_from
\* equals the i-prefix of prefix_from and stops at the first mismatch.
get_suffix_prefix(suffix_from, prefix_from) ==
    Slice(prefix_from, 0, suffix_scan(suffix_from, prefix_from, 1) - 1)

\* ----------------------------------------------------------- tokenizer

\* Advance of state_machine.py (an IntEnum) and Advance.Next of grammar.py.
Again == 0
Done == 1
Reject == 2
TryNext == 3
Advance_Next == 1

\* shared.tokenizer.eos_token_id
eos_token_id == 0

\* The vocabulary: "0" is the text of EOS ("\x00" in the test tokenizer);
\* multi-character tokens stand next to the single characters.  No token
\* spells "d".
tokens ==
    << <<"0">>, <<"a">>, <<"b">>, <<"c">>, <<"q">>, <<"a", "b">>, <<"c", "q">> >>

scores_size == Len(tokens)

decode1(i) == tokens[i + 1]

\* get_token_dictionary: { i: decode([i]) for i in range(scores_size) }
d == [i \in 0 .. scores_size - 1 |-> decode1(i)]

TokenIds == DOMAIN d

\* The tokenizer objects the host can load; the first is the test tokenizer.
\* Another tokenizer spells the same texts under other ids.
Tokenizers == 1 .. MaxTokenizers

decode_with(t, i) == decode1((i + t - 1) % scores_size)

\* params["token_dictionary"] before a dictionary is built: None, which
\* get_token_dictionary does not tell from an empty dictionary.
NoDictionary == [i \in {} |-> <<>>]

\* params["used_tokenizer"] before a dictionary is built: no tokenizer.
NoTokenizer == 0

\* script.params as far as get_token_dictionary reads and writes it.
Params(token_dictionary, used_tokenizer, scores_size_) ==
    [token_dictionary |-> token_dictionary, used_tokenizer |-> used_tokenizer,
     scores_size |-> scores_size_]

\* params once the dictionary of the test tokenizer is built.
Built == Params(d, 1, scores_size)

\* ------------------------------------------------------- AllowedTokens

AllowedTokens(allowed, banned, look_ahead, allow_eos) ==
    [allowed |-> allowed, banned |-> banned,
     look_ahead |-> look_ahead, allow_eos |-> allow_eos]

\* A combine that keeps the receiver and ignores the argument.
combine_self(self, other) == self

RECURSIVE combine(_, _)
combine(self, other) ==
    IF (self.allowed = {} /\ self.banned = {})
       \/ (other.allowed = {} /\ other.banned = {})
    THEN AllowedTokens({}, {}, self.look_ahead \/ other.look_ahead,
                       self.allow_eos \/ other.allow_eos)
    ELSE IF self.allowed # {} /\ other.allowed # {}
    THEN AllowedTokens(self.allowed \cup other.allowed, {},
                       self.look_ahead \/ other.look_ahead,
                       self.allow_eos \/ other.allow_eos)
    ELSE IF self.banned # {} /\ other.banned # {}
    THEN AllowedTokens({}, self.banned \cap other.banned,
                       self.look_ahead \/ other.look_ahead,
                       self.allow_eos \/ other.allow_eos)
    ELSE IF self.allowed # {} /\ other.banned # {}
    THEN AllowedTokens({}, other.banned \ self.allowed,
                       self.look_ahead \/ other.look_ahead,
                       self.allow_eos \/ other.allow_eos)
    ELSE combine(other, self)

set_ahead(self) ==
    AllowedTokens(self.allowed, self.banned, TRUE, self.allow_eos)

\* Scores: "raw" is the finite score the model gave, "ninf" is minus
\* infinity, "forced" is the 1000.0 written when EOS is forced.
MINUS_INF == "ninf"

RawScores == [i \in TokenIds |-> "raw"]

apply(self, sc) ==
    LET s1 == IF self.allowed # {} /\ self.banned = {}
              THEN [i \in TokenIds |->
                      IF i \in self.allowed \/ i = eos_token_id
                      THEN sc[i] ELSE MINUS_INF]
              ELSE sc
    IN IF self.banned # {} \/ ~self.allow_eos
       THEN [i \in TokenIds |->
               IF (i \in self.banned /\ i \notin self.allowed)
                  \/ (~self.allow_eos /\ i = eos_token_id)
               THEN MINUS_INF ELSE s1[i]]
       ELSE s1

Finite(sc) == {i \in TokenIds : sc[i] # MINUS_INF}

\* -------------------------------------------------------------- symbols

Terminal(value) == [k |-> "Terminal", value |-> value]

NoNext == [has |-> FALSE, value |-> <<>>]

\* RegExp.__init__: value is the pattern text.  A pattern is a character
\* class, negative when it starts "[^", with "+" appended by the parser for
\* the inner copy of A+.  `next` is None until allow_next records a Terminal.
RegExp(negative, cls, plus) ==
    [k |-> "RegExp", negative |-> negative, cls |-> cls, plus |-> plus,
     next |-> NoNext]

\* RegExp.value, the key of the two class-level caches.
value_of(symbol) ==
    [negative |-> symbol.negative, cls |-> symbol.cls, plus |-> symbol.plus]

\* RegExp.allow_next
allow_next(self, t) == [self EXCEPT !.next = [has |-> TRUE, value |-> t.value]]

AnyToken == [k |-> "AnyToken"]

NonTerminal(name) == [k |-> "NonTerminal", name |-> name]

Sequence(items) == [k |-> "Sequence", items |-> items]

RECURSIVE flatten(_)
flatten(items) ==
    IF items = <<>> THEN <<>>
    ELSE (IF Head(items).k = "Alternative" THEN Head(items).items
          ELSE <<Head(items)>>) \o flatten(Tail(items))

\* Alternative.__init__: nested alternatives are flattened.
Alternative(items) == [k |-> "Alternative", items |-> flatten(items)]

Repeat(mode, item) == [k |-> "Repeat", mode |-> mode, item |-> item]

\* self.re.search(t) of a negative RegExp: re is the class without "^", so
\* search finds a forbidden character anywhere in t.
re_search(symbol, t) == \E i \in 1 .. Len(t) : t[i] \in symbol.cls

\* self.re.match(t) of a positive RegExp: re is "^" + value + "$" compiled
\* with MULTILINE | DOTALL, matched at position 0: one character of the
\* class (one or more with "+"), then the end of t or a newline.
re_match(symbol, t) ==
    \E n \in 1 .. Len(t) :
        /\ symbol.plus \/ n = 1
        /\ \A i \in 1 .. n : t[i] \in symbol.cls
        /\ n = Len(t) \/ t[n + 1] = NL

ValidationError == [k |-> "ValidationError"]

RECURSIVE resolve_loop(_, _, _)
resolve_loop(rs, symbol, dont_loop) ==
    IF symbol.k # "NonTerminal" THEN symbol
    ELSE IF symbol.name \notin DOMAIN rs THEN ValidationError
    ELSE IF symbol.name \in dont_loop THEN ValidationError
    ELSE resolve_loop(rs, rs[symbol.name], dont_loop \cup {symbol.name})

\* Grammar.resolve: follows rule references to the symbol they stand for.
\* dont_loop holds the rules whose body has been visited.
resolve(rs, symbol) == resolve_loop(rs, symbol, {})

\* ------------------------------------------------------------- matchers

NoMatcher == [k |-> "None"]

TerminalMatcher(t) == [k |-> "TerminalMatcher", symbol |-> t, index |-> 0]

RegExpMatcher(t) == [k |-> "RegExpMatcher", symbol |-> t]

AnyTokenMatcher(t) == [k |-> "AnyTokenMatcher", symbol |-> t]

SequenceMatcher(symbol, items) ==
    [k |-> "SequenceMatcher", symbol |-> symbol, items |-> items, index |-> 0]

\* The live children are kept in source order; each is its own object.
AlternativeMatcher(symbol, items) ==
    [k |-> "AlternativeMatcher", symbol |-> symbol, items |-> items]

RepeatMatcher(symbol, effective_item) ==
    [k |-> "RepeatMatcher", symbol |-> symbol,
     effective_item |-> effective_item, inside |-> FALSE]

RECURSIVE enter(_, _)

\* SequenceMatcher.ensure_matcher; i counts from 0 as in the source.
ensure_matcher(rs, self, i) ==
    IF self.items[i + 1].k = "None"
    THEN [self EXCEPT !.items[i + 1] = enter(rs, resolve(rs, self.symbol.items[i + 1]))]
    ELSE self

\* Symbol.enter of every symbol class.
enter(rs, symbol) ==
    CASE symbol.k = "Terminal" -> TerminalMatcher(symbol)
      [] symbol.k = "RegExp" -> RegExpMatcher(symbol)
      [] symbol.k = "AnyToken" -> AnyTokenMatcher(symbol)
      [] symbol.k = "NonTerminal" -> enter(rs, resolve(rs, symbol))
      [] symbol.k = "Sequence" ->
            ensure_matcher(rs,
                SequenceMatcher(symbol, [i \in DOMAIN symbol.items |-> NoMatcher]), 0)
      [] symbol.k = "Alternative" ->
            AlternativeMatcher(symbol,
                [i \in DOMAIN symbol.items |-> enter(rs, resolve(rs, symbol.items[i]))])
      [] symbol.k = "Repeat" ->
            RepeatMatcher(symbol, enter(rs, resolve(rs, symbol.item)))

RECURSIVE get_effective_matcher(_)
get_effective_matcher(self) ==
    CASE self.k = "SequenceMatcher" ->
            IF self.items[self.index + 1].k # "None"
            THEN get_effective_matcher(self.items[self.index + 1])
            ELSE NoMatcher
      [] self.k = "AlternativeMatcher" ->
            IF Len(self.items) = 1 THEN get_effective_matcher(self.items[1])
            ELSE self
      [] self.k = "RepeatMatcher" ->
            IF self.inside THEN get_effective_matcher(self.effective_item)
            ELSE self
      [] OTHER -> self


\* --------------------------------------------------- get_allowed_tokens

\* What one get_allowed_tokens call leaves behind: the AllowedTokens it
\* returns (rv), the matcher (Sequence children may have been materialised)
\* and the two class-level RegExp caches.
Result(rv, self, bc, ac) == [rv |-> rv, self |-> self, bc |-> bc, ac |-> ac]

\* TerminalMatcher.get_allowed_tokens.  Terminal.allowed_cache belongs to the
\* one Terminal and is keyed by index: with one token dictionary it holds
\* what is computed here.
TerminalMatcher_get_allowed_tokens(self) ==
    AllowedTokens(
        {token_id \in DOMAIN d :
            /\ d[token_id] # <<>>
            /\ d[token_id] = Slice(self.symbol.value, self.index,
                                   self.index + Len(d[token_id]))},
        {}, FALSE, FALSE)

\* The set RegExpMatcher.get_allowed_tokens computes for a negative RegExp
\* when its pattern is not in banned_cache.
compute_banned(symbol) ==
    {token_id \in DOMAIN d :
        /\ re_search(symbol, d[token_id])
        /\ IF symbol.next.has
           THEN LET t == d[token_id]
                    s == get_suffix_prefix(t, symbol.next.value)
                IN ~(/\ s # <<>>
                     /\ Len(s) < Len(t)
                     /\ ~re_search(symbol, Slice(t, 0, Len(t) - Len(s))))
           ELSE TRUE}

compute_allowed(symbol) ==
    {token_id \in DOMAIN d : re_match(symbol, d[token_id])}

\* RegExpMatcher.get_allowed_tokens: both caches are class attributes of
\* RegExp keyed by the pattern text alone.
RegExpMatcher_get_allowed_tokens(self, bc, ac) ==
    LET key == value_of(self.symbol)
    IN IF self.symbol.negative
       THEN LET bc1 == IF key \in DOMAIN bc THEN bc
                       ELSE (key :> compute_banned(self.symbol)) @@ bc
            IN Result(AllowedTokens({}, bc1[key], FALSE, FALSE), self, bc1, ac)
       ELSE LET ac1 == IF key \in DOMAIN ac THEN ac
                       ELSE (key :> compute_allowed(self.symbol)) @@ ac
            IN Result(AllowedTokens(ac1[key], {}, FALSE, FALSE), self, bc, ac1)

RECURSIVE get_allowed_tokens(_, _, _, _)
RECURSIVE sequence_ahead(_, _, _, _, _, _)
RECURSIVE alternative_union(_, _, _, _, _, _)

\* The while loop of SequenceMatcher.get_allowed_tokens, entered with the
\* child i already counted in rv.
sequence_ahead(rs, self, i, rv, bc, ac) ==
    IF i < Len(self.symbol.items) - 1
    THEN LET self1 == ensure_matcher(rs, self, i + 1)
             r == get_allowed_tokens(rs, self1.items[i + 2], bc, ac)
             self2 == [self1 EXCEPT !.items[i + 2] = r.self]
             rv1 == combine(rv, r.rv)
         IN IF ~r.rv.look_ahead
            THEN Result([rv1 EXCEPT !.look_ahead = FALSE], self2, r.bc, r.ac)
            ELSE sequence_ahead(rs, self2, i + 1, rv1, r.bc, r.ac)
    ELSE Result(rv, self, bc, ac)

\* A get_allowed_tokens that asks the current child alone.
SequenceMatcher_get_allowed_tokens_current(rs, self, bc, ac) ==
    LET r == get_allowed_tokens(rs, self.items[self.index + 1], bc, ac)
    IN Result(r.rv, [self EXCEPT !.items[self.index + 1] = r.self], r.bc, r.ac)

SequenceMatcher_get_allowed_tokens(rs, self, bc, ac) ==
    LET r == get_allowed_tokens(rs, self.items[self.index + 1], bc, ac)
        self1 == [self EXCEPT !.items[self.index + 1] = r.self]
    IN IF r.rv.look_ahead
       THEN sequence_ahead(rs, self1, self.index, r.rv, r.bc, r.ac)
       ELSE Result(r.rv, self1, r.bc, r.ac)

\* The for loop of AlternativeMatcher.get_allowed_tokens from child i on;
\* has is FALSE while rv is still None.
alternative_union(rs, self, i, acc, bc, ac) ==
    IF i > Len(self.items) THEN Result(acc, self, bc, ac)
    ELSE LET r == get_allowed_tokens(rs, self.items[i], bc, ac)
             self1 == [self EXCEPT !.items[i] = r.self]
         IN alternative_union(rs, self1, i + 1,
                [has |-> TRUE,
                 rv |-> IF acc.has THEN combine(acc.rv, r.rv) ELSE r.rv],
                r.bc, r.ac)

AlternativeMatcher_get_allowed_tokens(rs, self, bc, ac) ==
    LET r == alternative_union(rs, self, 1,
                 [has |-> FALSE, rv |-> AllowedTokens({}, {}, FALSE, FALSE)],
                 bc, ac)
    IN Result(r.rv.rv, r.self, r.bc, r.ac)

\* A get_allowed_tokens that hands on what the inner matcher returns.
RepeatMatcher_get_allowed_tokens_plain(rs, self, bc, ac) ==
    LET r == get_allowed_tokens(rs, self.effective_item, bc, ac)
    IN Result(r.rv, [self EXCEPT !.effective_item = r.self], r.bc, r.ac)

RepeatMatcher_get_allowed_tokens(rs, self, bc, ac) ==
    LET r == get_allowed_tokens(rs, self.effective_item, bc, ac)
        self1 == [self EXCEPT !.effective_item = r.self]
    IN IF ~self.inside
       THEN Result(set_ahead(r.rv), self1, r.bc, r.ac)
       ELSE Result(r.rv, self1, r.bc, r.ac)

get_allowed_tokens(rs, self, bc, ac) ==
    CASE self.k = "TerminalMatcher" ->
            Result(TerminalMatcher_get_allowed_tokens(self), self, bc, ac)
      [] self.k = "RegExpMatcher" -> RegExpMatcher_get_allowed_tokens(self, bc, ac)
      [] self.k = "AnyTokenMatcher" ->
            Result(AllowedTokens({}, {}, FALSE, TRUE), self, bc, ac)
      [] self.k = "SequenceMatcher" -> SequenceMatcher_get_allowed_tokens(rs, self, bc, ac)
      [] self.k = "AlternativeMatcher" ->
            AlternativeMatcher_get_allowed_tokens(rs, self, bc, ac)
      [] self.k = "RepeatMatcher" -> RepeatMatcher_get_allowed_tokens(rs, self, bc, ac)

\* -------------------------------------------------------------- advance

\* What one advance call leaves behind: the Advance it returns and the
\* matcher as mutated.
Step(a, self) == [a |-> a, self |-> self]

TerminalMatcher_advance(self, token_id) ==
    LET t == d[token_id]
        value == self.symbol.value
        matches == t = Slice(value, self.index, self.index + Len(t))
        t1 == IF matches THEN t ELSE get_suffix_prefix(t, value)
    IN IF ~matches /\ (self.index # 0 \/ t1 = <<>>)
       THEN Step(Reject, self)
       ELSE LET index == self.index + Len(t1)
            IN Step(IF index >= Len(value) THEN Done ELSE Again,
                    [self EXCEPT !.index = index])

RegExpMatcher_advance(self, token_id) ==
    IF self.symbol.negative
    THEN (IF re_search(self.symbol, d[token_id]) THEN Step(Reject, self)
          ELSE Step(Done, self))
    ELSE (IF ~re_match(self.symbol, d[token_id]) THEN Step(Reject, self)
          ELSE Step(Done, self))

\* An AnyToken matcher that finishes after one token.
AnyTokenMatcher_advance_done(self, token_id) == Step(Done, self)

AnyTokenMatcher_advance(self, token_id) == Step(Again, self)

RECURSIVE advance(_, _, _)
RECURSIVE alternative_loop(_, _, _, _, _)

\* An advance that moves past a child answering TryNext and keeps the token.
SequenceMatcher_advance_consuming(rs, self, token_id) ==
    LET r == advance(rs, self.items[self.index + 1], token_id)
        self1 == [self EXCEPT !.items[self.index + 1] = r.self]
    IN IF r.a \in {Done, TryNext} /\ self.index < Len(self.symbol.items) - 1
       THEN Step(Again, ensure_matcher(rs, [self1 EXCEPT !.index = self.index + 1],
                                       self.index + 1))
       ELSE Step(r.a, self1)

SequenceMatcher_advance(rs, self, token_id) ==
    LET r == advance(rs, self.items[self.index + 1], token_id)
        self1 == [self EXCEPT !.items[self.index + 1] = r.self]
    IN IF r.a \in {Done, TryNext} /\ self.index < Len(self.symbol.items) - 1
       THEN LET self2 == ensure_matcher(rs,
                             [self1 EXCEPT !.index = self.index + 1],
                             self.index + 1)
            IN IF r.a = TryNext THEN advance(rs, self2, token_id)
               ELSE Step(Again, self2)
       ELSE Step(r.a, self1)

\* A loop in which the answer of the child visited last decides between
\* TryNext and Done.
RECURSIVE alternative_loop_latest(_, _, _, _, _)
alternative_loop_latest(rs, todo, kept, best_a, token_id) ==
    IF todo = <<>> THEN [best_a |-> best_a, items |-> kept]
    ELSE LET r == advance(rs, Head(todo), token_id)
         IN IF r.a \in {Reject, TryNext}
            THEN alternative_loop_latest(rs, Tail(todo), kept,
                     IF r.a = TryNext THEN TryNext ELSE best_a, token_id)
            ELSE alternative_loop_latest(rs, Tail(todo),
                     IF r.a = Done THEN kept ELSE Append(kept, r.self),
                     Done, token_id)

\* A loop that removes the children that answer Reject or TryNext and keeps
\* those that answer Done.
RECURSIVE alternative_loop_done_kept(_, _, _, _, _)
alternative_loop_done_kept(rs, todo, kept, best_a, token_id) ==
    IF todo = <<>> THEN [best_a |-> best_a, items |-> kept]
    ELSE LET r == advance(rs, Head(todo), token_id)
         IN IF r.a \in {Reject, TryNext}
            THEN alternative_loop_done_kept(rs, Tail(todo), kept,
                     IF r.a = TryNext /\ best_a = Reject THEN TryNext ELSE best_a,
                     token_id)
            ELSE alternative_loop_done_kept(rs, Tail(todo), Append(kept, r.self),
                     Done, token_id)

\* The for loop of AlternativeMatcher.advance over list(self.items): todo
\* are the children not yet visited, kept those that stay in self.items.
alternative_loop(rs, todo, kept, best_a, token_id) ==
    IF todo = <<>> THEN [best_a |-> best_a, items |-> kept]
    ELSE LET r == advance(rs, Head(todo), token_id)
         IN IF r.a \in {Reject, TryNext}
            THEN alternative_loop(rs, Tail(todo), kept,
                     IF r.a = TryNext /\ best_a = Reject THEN TryNext ELSE best_a,
                     token_id)
            ELSE alternative_loop(rs, Tail(todo),
                     IF r.a = Done THEN kept ELSE Append(kept, r.self),
                     Done, token_id)

AlternativeMatcher_advance(rs, self, token_id) ==
    LET r == alternative_loop(rs, self.items, <<>>, Reject, token_id)
        self1 == [self EXCEPT !.items = r.items]
    IN IF Len(r.items) = 0 THEN Step(r.best_a, self1)
       ELSE Step(Again, self1)

\* An advance that enters the next iteration with inside as it was.
RepeatMatcher_advance_inside_kept(rs, self, token_id) ==
    LET r == advance(rs, self.effective_item, token_id)
        self1 == [self EXCEPT !.effective_item = r.self]
    IN IF r.a = Reject
       THEN (IF self.inside THEN Step(r.a, self1) ELSE Step(TryNext, self1))
       ELSE IF r.a = Done
       THEN (IF self.symbol.mode = "*"
             THEN Step(Again,
                       [self EXCEPT !.effective_item =
                                        enter(rs, resolve(rs, self.symbol.item))])
             ELSE Step(Done, self1))
       ELSE IF r.a = Again
       THEN Step(r.a, [self1 EXCEPT !.inside = TRUE])
       ELSE Step(r.a, self1)

\* An advance that starts the next iteration on the matcher the finished
\* one leaves behind.
RepeatMatcher_advance_item_kept(rs, self, token_id) ==
    LET r == advance(rs, self.effective_item, token_id)
        self1 == [self EXCEPT !.effective_item = r.self]
    IN IF r.a = Reject
       THEN (IF self.inside THEN Step(r.a, self1) ELSE Step(TryNext, self1))
       ELSE IF r.a = Done
       THEN (IF self.symbol.mode = "*"
             THEN Step(Again, [self1 EXCEPT !.inside = FALSE])
             ELSE Step(Done, self1))
       ELSE IF r.a = Again
       THEN Step(r.a, [self1 EXCEPT !.inside = TRUE])
       ELSE Step(r.a, self1)

RepeatMatcher_advance(rs, self, token_id) ==
    LET r == advance(rs, self.effective_item, token_id)
        self1 == [self EXCEPT !.effective_item = r.self]
    IN IF r.a = Reject
       THEN (IF self.inside THEN Step(r.a, self1) ELSE Step(TryNext, self1))
       ELSE IF r.a = Done
       THEN (IF self.symbol.mode = "*"
             THEN Step(Again,
                       [self EXCEPT !.effective_item =
                                        enter(rs, resolve(rs, self.symbol.item)),
                                    !.inside = FALSE])
             ELSE Step(Done, self1))
       ELSE IF r.a = Again
       THEN Step(r.a, [self1 EXCEPT !.inside = TRUE])
       ELSE Step(r.a, self1)

advance(rs, self, token_id) ==
    CASE self.k = "TerminalMatcher" -> TerminalMatcher_advance(self, token_id)
      [] self.k = "RegExpMatcher" -> RegExpMatcher_advance(self, token_id)
      [] self.k = "AnyTokenMatcher" -> AnyTokenMatcher_advance(self, token_id)
      [] self.k = "SequenceMatcher" -> SequenceMatcher_advance(rs, self, token_id)
      [] self.k = "AlternativeMatcher" -> AlternativeMatcher_advance(rs, self, token_id)
      [] self.k = "RepeatMatcher" -> RepeatMatcher_advance(rs, self, token_id)


\* ------------------------------------------------------------- validate

\* The rule a chain of references ends in (symbol is a NonTerminal that
\* resolves).
RECURSIVE resolve_name(_, _)
resolve_name(rs, symbol) ==
    IF rs[symbol.name].k = "NonTerminal" THEN resolve_name(rs, rs[symbol.name])
    ELSE symbol.name

\* What validate leaves behind: whether it returned normally, the rules
\* (symbols are mutable objects shared through the rule map) and the symbol
\* it was called on.
Validated(ok, rs, symbol) == [ok |-> ok, rs |-> rs, symbol |-> symbol]

\* The for loop of Sequence.validate from item i (counted from 0) on.
RECURSIVE sequence_decorate(_, _, _)
sequence_decorate(rs, self, i) ==
    IF i >= Len(self.items) - 1 THEN Validated(TRUE, rs, self)
    ELSE IF self.items[i + 1].k = "Repeat" /\ self.items[i + 1].item.k = "RegExp"
    THEN LET nxt == resolve(rs, self.items[i + 2])
         IN IF nxt.k = "ValidationError" THEN Validated(FALSE, rs, self)
            ELSE IF nxt.k = "Terminal"
            THEN sequence_decorate(rs,
                     [self EXCEPT !.items[i + 1].item = allow_next(@, nxt)], i + 1)
            ELSE sequence_decorate(rs, self, i + 1)
    ELSE sequence_decorate(rs, self, i + 1)

RECURSIVE validate(_, _)
RECURSIVE alternative_validate(_, _, _)

\* The for loop of Alternative.validate from item i (counted from 1) on.
alternative_validate(rs, self, i) ==
    IF i > Len(self.items) THEN Validated(TRUE, rs, self)
    ELSE LET r == validate(rs, self.items[i])
         IN IF ~r.ok THEN Validated(FALSE, r.rs, self)
            ELSE alternative_validate(r.rs, [self EXCEPT !.items[i] = r.symbol], i + 1)

\* Symbol.validate of every symbol class of symbols.py.  Sequence.validate
\* calls Symbol.validate (a no-op) and then records the look-ahead
\* terminals; it does not descend into its items.
validate(rs, symbol) ==
    CASE symbol.k = "Terminal" -> Validated(symbol.value # <<>>, rs, symbol)
      [] symbol.k = "NonTerminal" ->
            IF resolve(rs, symbol).k = "ValidationError"
            THEN Validated(FALSE, rs, symbol)
            ELSE LET name == resolve_name(rs, symbol)
                     r == validate(rs, rs[name])
                 IN Validated(r.ok, [r.rs EXCEPT ![name] = r.symbol], symbol)
      [] symbol.k = "Sequence" -> sequence_decorate(rs, symbol, 0)
      [] symbol.k = "Alternative" -> alternative_validate(rs, symbol, 1)
      [] symbol.k = "Repeat" ->
            LET r == validate(rs, symbol.item)
            IN Validated(r.ok, r.rs, [symbol EXCEPT !.item = r.symbol])
      [] OTHER -> Validated(TRUE, rs, symbol)

\* -------------------------------------------------------------- session

\* Grammar.reset after the rule text is parsed into rs: validate from root,
\* then enter_rule("root").
Grammar_validate(rs) ==
    LET r == validate(rs, rs["root"])
    IN [ok |-> r.ok, rs |-> [r.rs EXCEPT !["root"] = r.symbol]]

\* Grammar.enter_rule
enter_rule(rs, name) == enter(rs, resolve(rs, rs[name]))

\* Grammar.update_scores with an active matcher: its AllowedTokens, with
\* allow_eos set when it carries look_ahead, applied to the scores.
mask_active(rs, self, bc, ac, sc) ==
    LET r == get_allowed_tokens(rs, self, bc, ac)
        rv == IF r.rv.look_ahead THEN [r.rv EXCEPT !.allow_eos = TRUE] ELSE r.rv
    IN [scores |-> apply(rv, sc), self |-> r.self, bc |-> r.bc, ac |-> r.ac]

\* An update_scores that leaves the scores of a terminated session alone.
force_eos_untouched(sc) == sc

\* Grammar.update_scores without one: every score minus infinity, EOS 1000.0.
force_eos(sc) ==
    [i \in TokenIds |-> IF i = eos_token_id THEN "forced" ELSE MINUS_INF]

\* Grammar.advance: the answer of the active matcher decides.  Reject ends
\* the session (silently for EOS, through GenerationError otherwise), and so
\* does Advance.Next, the value 1; any other answer keeps the matcher.
Grammar_advance(rs, self, token_id) ==
    IF self.k = "None" THEN [a |-> Again, active |-> self]
    ELSE LET r == advance(rs, self, token_id)
         IN IF r.a = Reject THEN [a |-> r.a, active |-> NoMatcher]
            ELSE IF r.a = Advance_Next THEN [a |-> r.a, active |-> NoMatcher]
            ELSE [a |-> r.a, active |-> r.self]


\* ------------------------------------------------------------- grammars

\* The character classes used below: [^q] and [ab].
NotQ == RegExp(TRUE, {"q"}, FALSE)
AB == RegExp(FALSE, {"a", "b"}, FALSE)
ABplus == RegExp(FALSE, {"a", "b"}, TRUE)

\* The grammars a session is constructed from, as the parser leaves them.
Grammars == <<
    \* root ::= "ab" "c"
    ("root" :> Sequence(<<Terminal(<<"a", "b">>), Terminal(<<"c">>)>>)),
    \* root ::= "ab" | "bc"
    ("root" :> Alternative(<<Terminal(<<"a", "b">>), Terminal(<<"b", "c">>)>>)),
    \* root ::= "a" | "ab"
    ("root" :> Alternative(<<Terminal(<<"a">>), Terminal(<<"a", "b">>)>>)),
    \* root ::= "a"* "a"
    ("root" :> Sequence(<<Repeat("*", Terminal(<<"a">>)), Terminal(<<"a">>)>>)),
    \* root ::= "a" "b"?
    ("root" :> Sequence(<<Terminal(<<"a">>), Repeat("?", Terminal(<<"b">>))>>)),
    \* root ::= "q" [^q]* "q" "c"
    ("root" :> Sequence(<<Terminal(<<"q">>), Repeat("*", NotQ),
                          Terminal(<<"q">>), Terminal(<<"c">>)>>)),
    \* root ::= [^q]* "q" [^q]* "c"
    ("root" :> Sequence(<<Repeat("*", NotQ), Terminal(<<"q">>),
                          Repeat("*", NotQ), Terminal(<<"c">>)>>)),
    \* root ::= [ab]+
    ("root" :> Sequence(<<AB, Repeat("*", ABplus)>>)),
    \* root ::= "ad"
    ("root" :> Terminal(<<"a", "d">>)),
    \* root ::= "a" ""
    ("root" :> Sequence(<<Terminal(<<"a">>), Terminal(<<>>)>>)),
    \* root ::= "0a"
    ("root" :> Terminal(<<"0", "a">>)),
    \* root ::= (donotend)      donotend ::= (.*)
    ("root" :> NonTerminal("donotend")) @@ ("donotend" :> AnyToken),
    \* root ::= line line       line ::= "a" "b"?
    ("root" :> Sequence(<<NonTerminal("line"), NonTerminal("line")>>))
        @@ ("line" :> Sequence(<<Terminal(<<"a">>), Repeat("?", Terminal(<<"b">>))>>)),
    \* root ::= [^q] [^q]* "q" "c"
    ("root" :> Sequence(<<NotQ, Repeat("*", NotQ),
                          Terminal(<<"q">>), Terminal(<<"c">>)>>)),
    \* root ::= "c" str       str ::= "q" [^q]* "q"
    ("root" :> Sequence(<<Terminal(<<"c">>), NonTerminal("str")>>))
        @@ ("str" :> Sequence(<<Terminal(<<"q">>), Repeat("*", NotQ),
                                Terminal(<<"q">>)>>))
>>

\* -------------------------------------------------------------- actions

NoCall == [called |-> FALSE, a |-> Again]

NoCache == [key \in {} |-> {}]

\* Grammar(definition): the rules are validated and root is entered.
Init ==
    \E g \in DOMAIN Grammars :
        LET v == Grammar_validate(Grammars[g])
        IN /\ v.ok
           /\ rules = v.rs
           /\ active = enter_rule(v.rs, "root")
           /\ scores = RawScores
           /\ banned_cache = NoCache
           /\ allowed_cache = NoCache
           /\ pc = "mask"
           /\ emitted = <<>>
           /\ unmasked = TRUE
           /\ last = NoCall
           /\ raised = FALSE
           /\ args = NoArgs
           /\ ret = NoArgs
           /\ params = Built
           /\ tokenizer = 1

\* The host hands the model's raw scores to Grammar.update_scores.
UpdateScores ==
    /\ pc = "mask"
    /\ pc' = "advance"
    /\ IF active.k = "None"
       THEN /\ scores' = force_eos(RawScores)
            /\ UNCHANGED <<active, banned_cache, allowed_cache>>
       ELSE LET r == mask_active(rules, active, banned_cache, allowed_cache, RawScores)
            IN /\ scores' = r.scores
               /\ active' = r.self
               /\ banned_cache' = r.bc
               /\ allowed_cache' = r.ac
    /\ UNCHANGED <<rules, emitted, unmasked, last, raised>>
    /\ UNCHANGED calls
    /\ UNCHANGED host

\* The host feeds the sampled token to Grammar.advance.
Advance(token_id) ==
    /\ pc = "advance"
    /\ Len(emitted) < MaxSteps
    /\ LET r == Grammar_advance(rules, active, token_id)
       IN /\ active' = r.active
          /\ last' = [called |-> active.k # "None", a |-> r.a]
    /\ pc' = "mask"
    /\ emitted' = Append(emitted, token_id)
    /\ unmasked' = (unmasked /\ token_id \in Finite(scores))
    /\ UNCHANGED <<rules, scores, banned_cache, allowed_cache, raised>>
    /\ UNCHANGED calls
    /\ UNCHANGED host

\* Grammar.reset() without text: root is entered again.
Reset ==
    /\ emitted # <<>>
    /\ active' = enter_rule(rules, "root")
    /\ pc' = "mask"
    /\ emitted' = <<>>
    /\ unmasked' = TRUE
    /\ last' = NoCall
    /\ UNCHANGED <<rules, scores, banned_cache, allowed_cache, raised>>
    /\ UNCHANGED calls
    /\ UNCHANGED host

Next ==
    \/ UpdateScores
    \/ \E token_id \in TokenIds : Advance(token_id)
    \/ Reset

Spec == Init /\ [][Next]_vars


\* ------------------------------------- grammar.py: state on the symbols

\* The symbol classes of grammar.py keep their matching state on the symbol
\* objects themselves, and a rule referenced twice is one object.  A grammar
\* of this kind is a heap: objs maps an object to its fields, names maps a
\* rule name to the object the parser stored under it.

Match_Reject == 0
Match_Accept == 1
Match_TryNext == 2

OneOrNone == 1
ManyOrNone == 2
OneOrMore == 3
ThisThenNone == 4
ThisThenMore == 5

Symbol_Terminal(value) == [k |-> "Terminal", value |-> value, index |-> 0]

Symbol_RegExp(negative, cls, plus) ==
    [k |-> "RegExp", negative |-> negative, cls |-> cls, plus |-> plus]

Symbol_NonTerminal(name) == [k |-> "NonTerminal", name |-> name]

Symbol_Sequence(items) ==
    [k |-> "Sequence", items |-> items, effective |-> <<>>, index |-> 0]

Symbol_Alternative(items) == [k |-> "Alternative", items |-> items, possible |-> {}]

Symbol_Repeat(mode, item) ==
    [k |-> "Repeat", mode |-> mode, item |-> item,
     effective_item |-> 0, effective_mode |-> OneOrMore]

\* RegExp.re.match(token_string): re is "^" + value + "$" compiled with
\* MULTILINE | DOTALL, for a negative class as for a positive one.
Symbol_re_match(self, t) ==
    \E n \in 1 .. Len(t) :
        /\ self.plus \/ n = 1
        /\ \A i \in 1 .. n : (t[i] \in self.cls) # self.negative
        /\ n = Len(t) \/ t[n + 1] = NL

\* Grammar.resolve on objects; validation has excluded undefined names and
\* loops before a session exists.
RECURSIVE Symbol_resolve(_, _)
Symbol_resolve(g, id) ==
    IF g.objs[id].k = "NonTerminal"
    THEN Symbol_resolve(g, g.names[g.objs[id].name])
    ELSE id

RECURSIVE Symbol_reset(_, _)
RECURSIVE reset_each(_, _, _)

\* for s in ...: s.reset(g)
reset_each(g, ids, i) ==
    IF i > Len(ids) THEN g
    ELSE reset_each(Symbol_reset(g, Symbol_resolve(g, ids[i])), ids, i + 1)

\* Symbol.reset of every class.
Symbol_reset(g, id) ==
    LET self == g.objs[id]
    IN CASE self.k = "Terminal" -> [g EXCEPT !.objs[id].index = 0]
         [] self.k = "Sequence" ->
               LET effective == [i \in DOMAIN self.items |->
                                    Symbol_resolve(g, self.items[i])]
                   g1 == [g EXCEPT !.objs[id].effective = effective,
                                   !.objs[id].index = 0]
               IN IF effective # <<>> THEN Symbol_reset(g1, effective[1]) ELSE g1
         [] self.k = "Alternative" ->
               reset_each(
                   [g EXCEPT !.objs[id].possible =
                        {Symbol_resolve(g, self.items[i]) : i \in DOMAIN self.items}],
                   self.items, 1)
         [] self.k = "Repeat" ->
               Symbol_reset(
                   [g EXCEPT !.objs[id].effective_mode =
                                 IF self.mode = "+" THEN OneOrMore
                                 ELSE IF self.mode = "?" THEN OneOrNone
                                 ELSE ManyOrNone,
                             !.objs[id].effective_item = Symbol_resolve(g, self.item)],
                   Symbol_resolve(g, self.item))
         [] OTHER -> g

RECURSIVE Symbol_match(_, _, _)
RECURSIVE sequence_match(_, _, _, _, _)

\* The while loop of Sequence.match.
sequence_match(g, self, m, i, token_id) ==
    IF m = Match_TryNext /\ i < Len(self.effective)
    THEN sequence_match(g, self, Symbol_match(g, self.effective[i + 1], token_id),
                        i + 1, token_id)
    ELSE m

\* Symbol.match of every class.
Symbol_match(g, id, token_id) ==
    LET self == g.objs[id]
    IN CASE self.k = "Terminal" ->
               IF token_id = eos_token_id THEN Match_Reject
               ELSE IF Slice(self.value, self.index, self.index + Len(d[token_id]))
                          = d[token_id]
                    THEN Match_Accept ELSE Match_Reject
         [] self.k = "RegExp" ->
               IF token_id = eos_token_id THEN Match_Reject
               ELSE IF Symbol_re_match(self, d[token_id])
                    THEN Match_Accept ELSE Match_Reject
         [] self.k = "Sequence" ->
               IF self.index < Len(self.effective)
               THEN sequence_match(g, self,
                        Symbol_match(g, self.effective[self.index + 1], token_id),
                        self.index + 1, token_id)
               ELSE Match_Reject
         [] self.k = "Alternative" ->
               IF \E s \in self.possible : Symbol_match(g, s, token_id) # Match_Reject
               THEN Match_Accept ELSE Match_Reject
         [] self.k = "Repeat" ->
               LET m == Symbol_match(g, self.effective_item, token_id)
               IN IF /\ m = Match_Reject
                     /\ self.effective_mode <= OneOrMore
                     /\ self.effective_mode <= ManyOrNone
                  THEN Match_TryNext ELSE m

\* What one advance of a symbol leaves behind: the Advance it returns or the
\* exception it raises (exc), and the grammar's objects as mutated so far.
Returned(a, g) == [a |-> a, g |-> g, exc |-> "none"]

Raised(exc, g) == [a |-> Reject, g |-> g, exc |-> exc]

RECURSIVE Symbol_advance(_, _, _)
RECURSIVE alternative_each(_, _, _, _, _)

Terminal_advance(g, id, token_id) ==
    LET self == g.objs[id]
        index == self.index + Len(d[token_id])
    IN IF Symbol_match(g, id, token_id) = Match_Reject
       THEN Raised("GenerationError", g)
       ELSE Returned(IF index >= Len(self.value) THEN Advance_Next ELSE Again,
                     [g EXCEPT !.objs[id].index = index])

\* RegExp.advance: `raise Advance.Reject` raises TypeError, an enum member
\* being no exception.
RegExp_advance(g, id, token_id) ==
    IF Symbol_match(g, id, token_id) = Match_Reject
    THEN Raised("TypeError", g)
    ELSE Returned(Advance_Next, g)

Sequence_advance(g, id, token_id) ==
    LET self == g.objs[id]
    IN IF self.index < Len(self.effective)
       THEN LET r == Symbol_advance(g, self.effective[self.index + 1], token_id)
                left == Symbol_reset(r.g, self.effective[self.index + 1])
                index == self.index + 1
                moved == [left EXCEPT !.objs[id].index = index]
                entered == Symbol_reset(moved, self.effective[index + 1])
            IN IF r.exc # "none" THEN r
               ELSE IF r.a = Advance_Next
               THEN IF index >= Len(self.effective)
                    THEN Returned(Advance_Next, moved)
                    ELSE Returned(Again, entered)
               ELSE IF r.a = Reject
               THEN IF index >= Len(self.effective)
                    THEN Returned(Reject, moved)
                    ELSE Symbol_advance(entered, id, token_id)
               ELSE r
       ELSE Returned(Advance_Next, g)

\* The loop of Alternative.advance over list(self.possible), and what
\* follows it.
alternative_each(g, id, i, any_ok, token_id) ==
    LET self == g.objs[id]
    IN IF i > Len(self.items)
       THEN IF self.possible = {}
            THEN IF any_ok THEN Returned(Advance_Next, g)
                 ELSE Raised("GenerationError", g)
            ELSE Returned(Again, g)
       ELSE LET s == Symbol_resolve(g, self.items[i])
                removed == [g EXCEPT !.objs[id].possible = @ \ {s}]
            IN IF \/ s \notin self.possible
                  \/ \E j \in 1 .. i - 1 : Symbol_resolve(g, self.items[j]) = s
               THEN alternative_each(g, id, i + 1, any_ok, token_id)
               ELSE IF Symbol_match(g, s, token_id) = Match_Reject
               THEN alternative_each(removed, id, i + 1, any_ok, token_id)
               ELSE LET r == Symbol_advance(g, s, token_id)
                    IN IF r.exc # "none" THEN r
                       ELSE IF r.a \in {Advance_Next, Reject}
                       THEN alternative_each(
                                [r.g EXCEPT !.objs[id].possible = @ \ {s}],
                                id, i + 1, TRUE, token_id)
                       ELSE alternative_each(r.g, id, i + 1, TRUE, token_id)

Alternative_advance(g, id, token_id) == alternative_each(g, id, 1, FALSE, token_id)

Repeat_advance(g, id, token_id) ==
    LET self == g.objs[id]
        m == Symbol_match(g, id, token_id)
    IN IF m = Match_Accept
       THEN LET r == Symbol_advance(g, self.effective_item, token_id)
                mode == r.g.objs[id].effective_mode
            IN IF r.exc # "none" THEN r
               ELSE IF r.a = Reject THEN Raised("GenerationError", r.g)
               ELSE IF r.a = Advance_Next
               THEN LET mode1 == IF mode \in {OneOrMore, ManyOrNone, ThisThenMore}
                                 THEN ManyOrNone ELSE mode
                        g1 == [r.g EXCEPT !.objs[id].effective_mode = mode1]
                    IN IF mode1 \in {OneOrNone, ThisThenNone}
                       THEN Returned(Advance_Next, g1)
                       ELSE Returned(Again, Symbol_reset(g1, self.effective_item))
               ELSE LET mode1 == IF mode \in {OneOrMore, ManyOrNone}
                                 THEN ThisThenMore
                                 ELSE IF mode = OneOrNone THEN ThisThenNone
                                 ELSE mode
                    IN Returned(r.a, [r.g EXCEPT !.objs[id].effective_mode = mode1])
       ELSE IF m = Match_Reject THEN Raised("GenerationError", g)
       ELSE IF self.effective_mode <= ManyOrNone THEN Returned(Reject, g)
       ELSE Raised("GenerationError", g)

\* Symbol.advance of every class.
Symbol_advance(g, id, token_id) ==
    CASE g.objs[id].k = "Terminal" -> Terminal_advance(g, id, token_id)
      [] g.objs[id].k = "RegExp" -> RegExp_advance(g, id, token_id)
      [] g.objs[id].k = "Sequence" -> Sequence_advance(g, id, token_id)
      [] g.objs[id].k = "Alternative" -> Alternative_advance(g, id, token_id)
      [] g.objs[id].k = "Repeat" -> Repeat_advance(g, id, token_id)

\* Grammar.enter_rule of grammar.py: the rule's symbol becomes the active
\* symbol and is reset.
Symbols_enter_rule(g, name) ==
    LET id == Symbol_resolve(g, g.names[name])
    IN [g |-> Symbol_reset(g, id), active |-> [k |-> "Symbol", id |-> id]]

\* Grammar.update_scores of grammar.py with an active symbol: a token is
\* masked when the symbol's match rejects it, or answers TryNext for a token
\* other than EOS.
Symbols_update_scores(g, id, sc) ==
    [token_id \in TokenIds |->
        LET a == Symbol_match(g, id, token_id)
        IN IF \/ a = Match_Reject
              \/ a = Match_TryNext /\ token_id # eos_token_id
           THEN MINUS_INF ELSE sc[token_id]]

\* Grammar.advance of grammar.py.  GenerationError is caught and ends the
\* session; any other exception leaves advance (raised).
Symbols_advance(g, self, token_id) ==
    IF self.k = "None"
    THEN [a |-> Again, g |-> g, active |-> self, raised |-> FALSE]
    ELSE LET r == Symbol_advance(g, self.id, token_id)
         IN IF r.exc = "GenerationError"
            THEN [a |-> r.a, g |-> r.g, active |-> NoMatcher, raised |-> FALSE]
            ELSE IF r.exc # "none"
            THEN [a |-> r.a, g |-> r.g, active |-> self, raised |-> TRUE]
            ELSE IF r.a = Reject \/ r.a = Advance_Next
            THEN [a |-> r.a, g |-> r.g, active |-> NoMatcher, raised |-> FALSE]
            ELSE [a |-> r.a, g |-> r.g, active |-> self, raised |-> FALSE]

\* The grammars a grammar.py session is constructed from, as parse_rule
\* leaves them.
Definitions == <<
    \* root ::= [ab]
    [names |-> ("root" :> 1),
     objs |-> <<Symbol_RegExp(FALSE, {"a", "b"}, FALSE)>>],
    \* root ::= "a" [ab] "c"
    [names |-> ("root" :> 1),
     objs |-> <<Symbol_Sequence(<<2, 3, 4>>), Symbol_Terminal(<<"a">>),
                Symbol_RegExp(FALSE, {"a", "b"}, FALSE), Symbol_Terminal(<<"c">>)>>],
    \* root ::= "a" ("b")?
    [names |-> ("root" :> 1),
     objs |-> <<Symbol_Sequence(<<2, 3>>), Symbol_Terminal(<<"a">>),
                Symbol_Repeat("?", 4), Symbol_Terminal(<<"b">>)>>],
    \* root ::= "ab" | "c"
    [names |-> ("root" :> 1),
     objs |-> <<Symbol_Alternative(<<2, 3>>), Symbol_Terminal(<<"a", "b">>),
                Symbol_Terminal(<<"c">>)>>],
    \* root ::= line line       line ::= "a" ("b")?
    [names |-> ("root" :> 1) @@ ("line" :> 4),
     objs |-> <<Symbol_Sequence(<<2, 3>>), Symbol_NonTerminal("line"),
                Symbol_NonTerminal("line"), Symbol_Sequence(<<5, 6>>),
                Symbol_Terminal(<<"a">>), Symbol_Repeat("?", 7),
                Symbol_Terminal(<<"b">>)>>],
    \* root ::= [ab]+ "c"
    [names |-> ("root" :> 1),
     objs |-> <<Symbol_Sequence(<<2, 4>>), Symbol_Repeat("+", 3),
                Symbol_RegExp(FALSE, {"a", "b"}, TRUE), Symbol_Terminal(<<"c">>)>>],
    \* root ::= ("b")? "ab"
    [names |-> ("root" :> 1),
     objs |-> <<Symbol_Sequence(<<2, 4>>), Symbol_Repeat("?", 3),
                Symbol_Terminal(<<"b">>), Symbol_Terminal(<<"a", "b">>)>>]
>>

\* Grammar(definition) of grammar.py.
InitSymbols ==
    \E n \in DOMAIN Definitions :
        LET r == Symbols_enter_rule(Definitions[n], "root")
        IN /\ rules = r.g
           /\ active = r.active
           /\ scores = RawScores
           /\ banned_cache = NoCache
           /\ allowed_cache = NoCache
           /\ pc = "mask"
           /\ emitted = <<>>
           /\ unmasked = TRUE
           /\ last = NoCall
           /\ raised = FALSE
           /\ args = NoArgs
           /\ ret = NoArgs
           /\ params = Built
           /\ tokenizer = 1

UpdateScoresSymbols ==
    /\ pc = "mask"
    /\ pc' = "advance"
    /\ scores' = IF active.k = "None" THEN force_eos(RawScores)
                 ELSE Symbols_update_scores(rules, active.id, RawScores)
    /\ UNCHANGED <<rules, active, banned_cache, allowed_cache, emitted,
                   unmasked, last, raised>>
    /\ UNCHANGED calls
    /\ UNCHANGED host

AdvanceSymbols(token_id) ==
    /\ pc = "advance"
    /\ Len(emitted) < MaxSteps
    /\ LET r == Symbols_advance(rules, active, token_id)
       IN /\ rules' = r.g
          /\ active' = r.active
          /\ raised' = (raised \/ r.raised)
          /\ last' = [called |-> active.k # "None", a |-> r.a]
    /\ pc' = "mask"
    /\ emitted' = Append(emitted, token_id)
    /\ unmasked' = (unmasked /\ token_id \in Finite(scores))
    /\ UNCHANGED <<scores, banned_cache, allowed_cache>>
    /\ UNCHANGED calls
    /\ UNCHANGED host

\* Grammar.reset() without text.
ResetSymbols ==
    /\ emitted # <<>>
    /\ LET r == Symbols_enter_rule(rules, "root")
       IN /\ rules' = r.g
          /\ active' = r.active
    /\ pc' = "mask"
    /\ emitted' = <<>>
    /\ unmasked' = TRUE
    /\ last' = NoCall
    /\ UNCHANGED <<scores, banned_cache, allowed_cache, raised>>
    /\ UNCHANGED calls
    /\ UNCHANGED host

NextSymbols ==
    \/ UpdateScoresSymbols
    \/ \E token_id \in TokenIds : AdvanceSymbols(token_id)
    \/ ResetSymbols

SpecSymbols == InitSymbols /\ [][NextSymbols]_vars

\* --------------------------------------- grammar.py: sessions reloaded

\* The texts handed to Grammar.reset(text), as the parser reads them: the
\* rules in the order of the text, each with the objects parse_rule builds
\* for it (the rule's own symbol first, references counted within the rule).
\* Every name a text refers to is defined by it, so that no session is left
\* with a rule map that fails to resolve.
Texts == <<
    \* root ::= "a"
    <<[name |-> "root", objs |-> <<Symbol_Terminal(<<"a">>)>>]>>,
    \* line ::= "b"
    <<[name |-> "line", objs |-> <<Symbol_Terminal(<<"b">>)>>]>>,
    \* root ::= "a"      root ::= "b"
    <<[name |-> "root", objs |-> <<Symbol_Terminal(<<"a">>)>>],
      [name |-> "root", objs |-> <<Symbol_Terminal(<<"b">>)>>]>>,
    \* root ::= line "c"      line ::= "a" | "b"
    <<[name |-> "root", objs |-> <<Symbol_Sequence(<<2, 3>>), Symbol_NonTerminal("line"),
                                  Symbol_Terminal(<<"c">>)>>],
      [name |-> "line", objs |-> <<Symbol_Alternative(<<2, 3>>), Symbol_Terminal(<<"a">>),
                                  Symbol_Terminal(<<"b">>)>>]>>,
    \* item ::= "a"      item ::= "a" "b"
    <<[name |-> "item", objs |-> <<Symbol_Terminal(<<"a">>)>>],
      [name |-> "item", objs |-> <<Symbol_Sequence(<<2, 3>>), Symbol_Terminal(<<"a">>),
                                  Symbol_Terminal(<<"b">>)>>]>>
>>

\* An object parsed for a rule, placed behind off objects of the session.
Shift(o, off) ==
    CASE o.k = "Sequence" -> [o EXCEPT !.items = [i \in DOMAIN o.items |-> o.items[i] + off]]
      [] o.k = "Alternative" ->
            [o EXCEPT !.items = [i \in DOMAIN o.items |-> o.items[i] + off]]
      [] o.k = "Repeat" -> [o EXCEPT !.item = o.item + off]
      [] OTHER -> o

\* The while loop of Grammar.reset: self.rules[rule_name] = parse_rule(text)
\* for the rules of the text from the i-th on.
RECURSIVE parse_rules(_, _, _)
parse_rules(g, text, i) ==
    IF i > Len(text) THEN g
    ELSE LET off == Len(g.objs)
         IN parse_rules(
                [names |-> (text[i].name :> off + 1) @@ g.names,
                 objs |-> g.objs \o [j \in DOMAIN text[i].objs |->
                                        Shift(text[i].objs[j], off)]],
                text, i + 1)

\* A resolve that follows one reference and returns what the rule holds.
Symbol_resolve_once(g, id, dont_loop) ==
    IF g.objs[id].k # "NonTerminal" THEN id
    ELSE IF g.objs[id].name \notin DOMAIN g.names THEN 0
    ELSE g.names[g.objs[id].name]

\* Grammar.resolve with its two errors; 0 stands for ValidationError.
RECURSIVE Symbol_resolve_checked(_, _, _)
Symbol_resolve_checked(g, id, dont_loop) ==
    IF g.objs[id].k # "NonTerminal" THEN id
    ELSE IF g.objs[id].name \notin DOMAIN g.names THEN 0
    ELSE IF g.names[g.objs[id].name] \in dont_loop \cup {id} THEN 0
    ELSE Symbol_resolve_checked(g, g.names[g.objs[id].name], dont_loop \cup {id})

RECURSIVE Symbol_validate(_, _, _)
RECURSIVE collection_validate(_, _, _, _)
RECURSIVE refers_to(_, _, _, _)

\* self in (g.resolve(j) for j in i.items), evaluated from item j on.
refers_to(g, items, j, id) ==
    IF j > Len(items) THEN "none"
    ELSE LET r == Symbol_resolve_checked(g, items[j], {})
         IN IF r = 0 THEN "ValidationError"
            ELSE IF r = id THEN "GrammarError"
            ELSE refers_to(g, items, j + 1, id)

\* The for loop of Collection.validate from item i on.
collection_validate(g, id, i, stack) ==
    IF i > Len(g.objs[id].items) THEN "none"
    ELSE LET r == Symbol_resolve_checked(g, g.objs[id].items[i], {})
         IN IF r = 0 THEN "ValidationError"
            ELSE IF r = id THEN "GrammarError"
            ELSE LET e == IF g.objs[r].k = "Alternative"
                          THEN refers_to(g, g.objs[r].items, 1, id) ELSE "none"
                 IN IF e # "none" THEN e
                    ELSE LET v == Symbol_validate(g, r, stack)
                         IN IF v # "none" THEN v
                            ELSE collection_validate(g, id, i + 1, stack)

\* Symbol.validate of every class: the exception raised, or "none".  stack
\* holds the objects whose validate is being executed; validate reads the
\* grammar and changes nothing, so a call on one of them repeats itself
\* until the interpreter raises RecursionError.
Symbol_validate(g, id, stack) ==
    LET self == g.objs[id]
        inner == stack \cup {id}
    IN IF id \in stack THEN "RecursionError"
       ELSE CASE self.k = "NonTerminal" ->
                    LET r == Symbol_resolve_checked(g, id, {})
                    IN IF r = 0 THEN "ValidationError"
                       ELSE Symbol_validate(g, r, inner)
              [] self.k \in {"Sequence", "Alternative"} ->
                    collection_validate(g, id, 1, inner)
              [] self.k = "Repeat" -> Symbol_validate(g, self.item, inner)
              [] OTHER -> "none"

\* The objects an object refers to.
Referred(o) ==
    CASE o.k = "Sequence" ->
            {o.items[i] : i \in DOMAIN o.items} \cup {o.effective[i] : i \in DOMAIN o.effective}
      [] o.k = "Alternative" -> {o.items[i] : i \in DOMAIN o.items} \cup o.possible
      [] o.k = "Repeat" -> {o.item, o.effective_item} \ {0}
      [] OTHER -> {}

RECURSIVE Referenced(_, _, _)
Referenced(g, seen, frontier) ==
    IF frontier = {} THEN seen
    ELSE LET new == UNION {Referred(g.objs[id]) : id \in frontier} \ seen
         IN Referenced(g, seen \cup new, new)

\* The session without the objects nothing refers to any more (the rules
\* replaced by a later definition): the objects the rule map still reaches,
\* in their order, and the active symbol among them.
Collected(g, self) ==
    LET roots == {g.names[n] : n \in DOMAIN g.names}
        live == Referenced(g, roots, roots)
        at(id) == Cardinality({j \in live : j <= id})
        to(o) ==
            CASE o.k = "Sequence" ->
                    [o EXCEPT !.items = [i \in DOMAIN o.items |-> at(o.items[i])],
                              !.effective = [i \in DOMAIN o.effective |->
                                                at(o.effective[i])]]
              [] o.k = "Alternative" ->
                    [o EXCEPT !.items = [i \in DOMAIN o.items |-> at(o.items[i])],
                              !.possible = {at(x) : x \in o.possible}]
              [] o.k = "Repeat" ->
                    [o EXCEPT !.item = at(o.item),
                              !.effective_item = IF o.effective_item = 0 THEN 0
                                                 ELSE at(o.effective_item)]
              [] OTHER -> o
    IN [g |-> [names |-> [n \in DOMAIN g.names |-> at(g.names[n])],
               objs |-> SelectSeq([i \in DOMAIN g.objs |->
                                      IF i \in live THEN to(g.objs[i])
                                      ELSE [k |-> "dropped"]],
                                  LAMBDA o : o.k # "dropped")],
        active |-> IF self.k = "None" THEN self ELSE [self EXCEPT !.id = at(self.id)]]

\* Grammar.reset(definition): the exception it raises ("none" if it returns)
\* and the session it leaves.
Grammar_reset(g, text) ==
    LET g1 == parse_rules(g, text, 1)
    IN IF "root" \notin DOMAIN g1.names
       THEN [exc |-> "ValidationError", g |-> g1, active |-> NoMatcher]
       ELSE LET v == Symbol_validate(g1, g1.names["root"], {})
            IN IF v # "none" THEN [exc |-> v, g |-> g1, active |-> NoMatcher]
               ELSE LET r == Symbols_enter_rule(g1, "root")
                    IN [exc |-> "none", g |-> r.g, active |-> r.active]

\* Grammar.reset(text) on a session in any state; args and ret keep the
\* text and the exception of the last load.
ResetText(n) ==
    /\ LET r == Grammar_reset(rules, Texts[n])
           c == Collected(r.g, r.active)
       IN /\ rules' = c.g
          /\ active' = c.active
          /\ ret' = [exc |-> r.exc]
    /\ args' = [f |-> "reset", definition |-> n]
    /\ pc' = "mask"
    /\ emitted' = <<>>
    /\ unmasked' = TRUE
    /\ last' = NoCall
    /\ UNCHANGED <<scores, banned_cache, allowed_cache, raised>>
    /\ UNCHANGED host

\* Grammar(definition): reset(definition) on an object without rules; when
\* it raises, there is no session.
InitTexts ==
    \E n \in DOMAIN Texts :
        LET r == Grammar_reset([names |-> NoCache, objs |-> <<>>], Texts[n])
            c == Collected(r.g, r.active)
        IN /\ r.exc = "none"
           /\ rules = c.g
           /\ active = c.active
           /\ scores = RawScores
           /\ banned_cache = NoCache
           /\ allowed_cache = NoCache
           /\ pc = "mask"
           /\ emitted = <<>>
           /\ unmasked = TRUE
           /\ last = NoCall
           /\ raised = FALSE
           /\ args = [f |-> "Grammar", definition |-> n]
           /\ ret = [exc |-> "none"]
           /\ params = Built
           /\ tokenizer = 1

NextTexts ==
    \/ UpdateScoresSymbols
    \/ \E token_id \in TokenIds : AdvanceSymbols(token_id)
    \/ ResetSymbols
    \/ \E n \in DOMAIN Texts : ResetText(n)

SpecTexts == InitTexts /\ [][NextTexts]_vars

\* ------------------------------------------------ grammar.py: the parser

\* The grammar texts handed to the parser, character by character.  They
\* hold no backslash, so that decode("unicode_escape") leaves the text of a
\* terminal as it is written.
Sources == <<
    \* root ::= "a"
    <<"r", "o", "o", "t", " ", ":", ":", "=", " ", "\"", "a", "\"">>,
    \* root ::= x "b"\nx ::= "a" | "c"\n
    <<"r", "o", "o", "t", " ", ":", ":", "=", " ", "x", " ", "\"", "b",
      "\"", NL, "x", " ", ":", ":", "=", " ", "\"", "a", "\"", " ", "|",
      " ", "\"", "c", "\"", NL>>,
    \* root ::= ("a")? [ab]+\n
    <<"r", "o", "o", "t", " ", ":", ":", "=", " ", "(", "\"", "a", "\"",
      ")", "?", " ", "[", "a", "b", "]", "+", NL>>,
    \* root ::= "a
    <<"r", "o", "o", "t", " ", ":", ":", "=", " ", "\"", "a">>,
    \* root ::= (x\n| "b")*\nx ::= 'a'
    <<"r", "o", "o", "t", " ", ":", ":", "=", " ", "(", "x", NL, "|",
      " ", "\"", "b", "\"", ")", "*", NL, "x", " ", ":", ":", "=", " ",
      "'", "a", "'">>
>>

Blank == {" ", "\t"}

\* \s of the rule pattern, as far as the texts go.
Space == {" ", "\t", NL}

\* [-a-z]
NameChars ==
    {"-", "a", "b", "c", "d", "e", "f", "g", "h", "i", "j", "k", "l", "m", "n",
     "o", "p", "q", "r", "s", "t", "u", "v", "w", "x", "y", "z"}

\* The longest prefix of text made of characters of cls: what a greedy
\* [cls]* or [cls]+ takes when the pattern goes on with something no
\* character of cls can start.
RECURSIVE Run_(_, _)
Run_(text, cls) ==
    IF text # <<>> /\ Head(text) \in cls THEN <<Head(text)>> \o Run_(Tail(text), cls)
    ELSE <<>>

\* text without its first n characters.
Drop(text, n) == SubSeq(text, n + 1, Len(text))

Skip(text, cls) == Drop(text, Len(Run_(text, cls)))

\* What a pattern leaves behind: whether it matched, and its groups.
Groups(ok, name, rest) == [ok |-> ok, name |-> name, rest |-> rest]

\* RE_RULE.match(text): \s*([-a-z]+)\s*::=\s*(.*)
RE_RULE(text) ==
    LET t1 == Skip(text, Space)
        name == Run_(t1, NameChars)
        t2 == Skip(Drop(t1, Len(name)), Space)
    IN Groups(name # <<>> /\ Slice(t2, 0, 3) = <<":", ":", "=">>,
              name, Skip(Drop(t2, 3), Space))

\* RE_TERMINAL.match(text): [ \t]*([-a-z]+)[ \t]*(.*)
RE_TERMINAL(text) ==
    LET t1 == Skip(text, Blank)
        name == Run_(t1, NameChars)
    IN Groups(name # <<>>, name, Skip(Drop(t1, Len(name)), Blank))

\* RE_OR.match(text): [ \t\n]*\|[ \t]*(.*)
RE_OR(text) ==
    LET t1 == Skip(text, Space)
    IN Groups(t1 # <<>> /\ Head(t1) = "|", <<>>, Skip(Drop(t1, 1), Blank))

\* RE_NEWLINE.match(text): [ \t]*\n[ \t\n]*(.*)
RE_NEWLINE(text) ==
    LET t1 == Skip(text, Blank)
    IN Groups(t1 # <<>> /\ Head(t1) = NL, <<>>, Skip(Drop(t1, 1), Space))

\* find_unescaped_index: the first index from start on at which needle
\* stands without a backslash before it; -1 stands for the ValueError of
\* str.index.
RECURSIVE find_unescaped_index(_, _, _)
find_unescaped_index(haystack, needle, start) ==
    IF start >= Len(haystack) THEN -1
    ELSE IF haystack[start + 1] = needle /\ haystack[start] # "\\" THEN start
    ELSE find_unescaped_index(haystack, needle, start + 1)

\* The symbols the parser builds, by the arguments of their constructors.
\* Repeat.__init__ of grammar.py takes the item out of a Repeat it is given;
\* RegExp keeps the text of its pattern.
Parsed_RegExp(value) == [k |-> "RegExp", value |-> value]

Parsed_Repeat(mode, item) ==
    [k |-> "Repeat", mode |-> mode,
     item |-> IF item.k = "Repeat" THEN item.item ELSE item]

\* What parse_sequence and parse_rule return: the exception raised ("none"
\* if they return), the symbol or the items, and the text left.
Parsed(exc, rv, text) == [exc |-> exc, rv |-> rv, text |-> text]

RECURSIVE parse_sequence(_, _, _)
RECURSIVE parse_rule(_, _)

\* The while loop of parse_sequence with the items collected in seq.
parse_sequence(text, seq, parentheses) ==
    IF text = <<>> THEN Parsed("none", seq, text)
    ELSE LET c == Head(text)
             left == seq[Len(seq)]
             popped == SubSeq(seq, 1, Len(seq) - 1)
         IN IF c \in {"\"", "'"}
            THEN LET end_index == find_unescaped_index(text, c, 1)
                 IN IF end_index < 0 THEN Parsed("GrammarError", seq, text)
                    ELSE parse_sequence(Drop(text, end_index + 1),
                             Append(seq, Terminal(Slice(text, 1, end_index))),
                             parentheses)
            ELSE IF RE_TERMINAL(text).ok
            THEN parse_sequence(RE_TERMINAL(text).rest,
                     Append(seq, NonTerminal(RE_TERMINAL(text).name)), parentheses)
            ELSE IF c \in Blank THEN parse_sequence(Drop(text, 1), seq, parentheses)
            ELSE IF c = "["
            THEN LET end_index == find_unescaped_index(text, "]", 1)
                 IN IF end_index < 0 THEN Parsed("GrammarError", seq, text)
                    ELSE parse_sequence(Drop(text, end_index + 1),
                             Append(seq, Parsed_RegExp(Slice(text, 0, end_index + 1))),
                             parentheses)
            ELSE IF c = "("
            THEN LET r == parse_rule(Drop(text, 1), TRUE)
                 IN IF r.exc # "none" THEN r
                    ELSE parse_sequence(r.text, Append(seq, r.rv), parentheses)
            ELSE IF parentheses /\ c = ")" THEN Parsed("none", seq, Drop(text, 1))
            ELSE IF c \in {"+", "*", "?"}
            THEN IF seq = <<>> THEN Parsed("GrammarError", seq, text)
                 ELSE parse_sequence(Drop(text, 1),
                          Append(popped,
                              IF c = "+" /\ left.k = "RegExp"
                              THEN Parsed_Repeat(c, Parsed_RegExp(Append(left.value, c)))
                              ELSE Parsed_Repeat(c, left)),
                          parentheses)
            ELSE IF RE_OR(text).ok
            THEN IF seq = <<>> THEN Parsed("GrammarError", seq, text)
                 ELSE LET r == parse_rule(RE_OR(text).rest, parentheses)
                      IN IF r.exc # "none" THEN r
                         ELSE Parsed("none",
                                  Append(popped, Alternative(<<left, r.rv>>)), r.text)
            ELSE IF RE_NEWLINE(text).ok
            THEN IF parentheses
                 THEN parse_sequence(RE_NEWLINE(text).rest, seq, parentheses)
                 ELSE Parsed("none", seq, RE_NEWLINE(text).rest)
            ELSE Parsed("GrammarError", seq, text)

\* parse_rule: a sequence of one item is that item.
parse_rule(text, parentheses) ==
    LET r == parse_sequence(text, <<>>, parentheses)
    IN IF r.exc # "none" THEN r
       ELSE Parsed("none", IF Len(r.rv) = 1 THEN r.rv[1] ELSE Sequence(r.rv), r.text)

\* The while loop of Grammar.reset over the text: the exception raised and
\* the rule map as the loop leaves it.
RECURSIVE Grammar_parse(_, _)
Grammar_parse(rs, text) ==
    IF text = <<>> THEN [exc |-> "none", rules |-> rs]
    ELSE LET m == RE_RULE(text)
             r == parse_rule(m.rest, FALSE)
         IN IF ~m.ok THEN [exc |-> "GrammarError", rules |-> rs]
            ELSE IF r.exc # "none" THEN [exc |-> r.exc, rules |-> rs]
            ELSE Grammar_parse((m.name :> r.rv) @@ rs, r.text)

\* The lines of text: what stands between its newlines.
RECURSIVE Lines(_)
Lines(text) ==
    LET line == Run_(text, {c \in {text[i] : i \in DOMAIN text} : c # NL})
    IN IF Len(line) = Len(text) THEN <<line>>
       ELSE <<line>> \o Lines(Drop(text, Len(line) + 1))

RECURSIVE Unlines(_)
Unlines(lines) ==
    IF Len(lines) = 1 THEN lines[1]
    ELSE lines[1] \o <<NL>> \o Unlines(Tail(lines))

\* text with a comment written at the end of its n-th line.
Commented(text, n) ==
    Unlines([Lines(text) EXCEPT ![n] = @ \o <<" ", "#", " ", "c">>])

\* ------------------------------------------- calls of single functions

\* The variables of a session, which no call touches.
session == <<rules, active, scores, banned_cache, allowed_cache, emitted,
             unmasked, last, raised>>

\* The characters and strings functions are called on.
Chars == {"a", "b"}

Strs == UNION {[1 .. n -> Chars] : n \in 0 .. MaxLen}

\* The Alternatives entered by the calls of AlternativeMatcher.advance.
Alternatives == <<
    \* "ab" | "bc"
    Alternative(<<Terminal(<<"a", "b">>), Terminal(<<"b", "c">>)>>),
    \* "a" | "ab"
    Alternative(<<Terminal(<<"a">>), Terminal(<<"a", "b">>)>>),
    \* "a" | "b" | "cq"
    Alternative(<<Terminal(<<"a">>), Terminal(<<"b">>), Terminal(<<"c", "q">>)>>),
    \* "a" "b" | "c" "q"
    Alternative(<<Sequence(<<Terminal(<<"a">>), Terminal(<<"b">>)>>),
                  Sequence(<<Terminal(<<"c">>), Terminal(<<"q">>)>>)>>),
    \* "a" "b"? | "c"
    Alternative(<<Sequence(<<Terminal(<<"a">>), Repeat("?", Terminal(<<"b">>))>>),
                  Terminal(<<"c">>)>>),
    \* [ab] "c" | "c" [ab]+
    Alternative(<<Sequence(<<AB, Terminal(<<"c">>)>>),
                  Sequence(<<Terminal(<<"c">>), ABplus>>)>>),
    \* [^q] "a" | "q" [^q]* "q" "c"
    Alternative(<<Sequence(<<NotQ, Terminal(<<"a">>)>>),
                  Sequence(<<Terminal(<<"q">>), Repeat("*", NotQ),
                             Terminal(<<"q">>), Terminal(<<"c">>)>>)>>)
>>

\* The token sequences of at most n tokens.
TokenSeqs(n) == UNION {[1 .. k -> TokenIds] : k \in 0 .. n}

\* update_scores and advance for every token of toks, from the matcher self
\* and the caches bc and ac, until an advance answers something other than
\* Again: the AllowedTokens of each step as the mask apply makes of them,
\* their look_ahead flag, and the answer of advance.
RECURSIVE Run(_, _, _, _, _)
Run(rs, self, bc, ac, toks) ==
    IF toks = <<>> THEN <<>>
    ELSE LET m == get_allowed_tokens(rs, self, bc, ac)
             r == advance(rs, m.self, Head(toks))
         IN <<[mask |-> Finite(apply(m.rv, RawScores)),
               look_ahead |-> m.rv.look_ahead,
               a |-> r.a]>>
            \o (IF r.a = Again THEN Run(rs, r.self, m.bc, m.ac, Tail(toks))
                ELSE <<>>)

\* A session whose root is symbol, run over toks from empty caches.
RunRoot(symbol, toks) ==
    LET v == Grammar_validate("root" :> symbol)
    IN Run(v.rs, enter_rule(v.rs, "root"), NoCache, NoCache, toks)

\* The AllowedTokens the constructor accepts (utils.py 33-38: allowed and
\* banned are never both non-empty) over the ids below MaxIds.
AllowedTokensValues ==
    {AllowedTokens(al, bn, la, ae) :
        al \in SUBSET (0 .. MaxIds - 1), bn \in SUBSET (0 .. MaxIds - 1),
        la \in BOOLEAN, ae \in BOOLEAN}
    \ {x \in [allowed : SUBSET (0 .. MaxIds - 1), banned : SUBSET (0 .. MaxIds - 1),
               look_ahead : BOOLEAN, allow_eos : BOOLEAN] :
            x.allowed # {} /\ x.banned # {}}

\* The rows of scores handed to apply: finite or already minus infinity on
\* the ids below MaxIds, finite elsewhere.
ScoresValues ==
    {sc \in [TokenIds -> {"raw", MINUS_INF}] :
        \A i \in TokenIds : i >= MaxIds => sc[i] = "raw"}

\* The texts Grammar(definition) is called on to see what validation makes
\* of rules that refer to themselves, in the form of Texts.
Recursions == <<
    \* root ::= list      list ::= item (list)?      item ::= "a"
    <<[name |-> "root", objs |-> <<Symbol_NonTerminal("list")>>],
      [name |-> "list", objs |-> <<Symbol_Sequence(<<2, 3>>), Symbol_NonTerminal("item"),
                                  Symbol_Repeat("?", 4), Symbol_NonTerminal("list")>>],
      [name |-> "item", objs |-> <<Symbol_Terminal(<<"a">>)>>]>>,
    \* root ::= ws      ws ::= ([ab] ws)?
    <<[name |-> "root", objs |-> <<Symbol_NonTerminal("ws")>>],
      [name |-> "ws", objs |-> <<Symbol_Repeat("?", 2), Symbol_Sequence(<<3, 4>>),
                                Symbol_RegExp(FALSE, {"a", "b"}, FALSE),
                                Symbol_NonTerminal("ws")>>]>>,
    \* root ::= "a" | "b" root
    <<[name |-> "root", objs |-> <<Symbol_Alternative(<<2, 3>>), Symbol_Terminal(<<"a">>),
                                  Symbol_Sequence(<<4, 5>>), Symbol_Terminal(<<"b">>),
                                  Symbol_NonTerminal("root")>>]>>,
    \* root ::= "a" root
    <<[name |-> "root", objs |-> <<Symbol_Sequence(<<2, 3>>), Symbol_Terminal(<<"a">>),
                                  Symbol_NonTerminal("root")>>]>>,
    \* root ::= line      line ::= root
    <<[name |-> "root", objs |-> <<Symbol_NonTerminal("line")>>],
      [name |-> "line", objs |-> <<Symbol_NonTerminal("root")>>]>>,
    \* root ::= root
    <<[name |-> "root", objs |-> <<Symbol_NonTerminal("root")>>]>>,
    \* root ::= line line      line ::= "a"
    <<[name |-> "root", objs |-> <<Symbol_Sequence(<<2, 3>>), Symbol_NonTerminal("line"),
                                  Symbol_NonTerminal("line")>>],
      [name |-> "line", objs |-> <<Symbol_Terminal(<<"a">>)>>]>>
>>

\* The symbols entered by the calls of Matcher.advance.
Entered == <<
    \* "a" | "ab"
    Alternative(<<Terminal(<<"a">>), Terminal(<<"a", "b">>)>>),
    \* "a" | "b"? | "cq"
    Alternative(<<Terminal(<<"a">>), Repeat("?", Terminal(<<"b">>)),
                  Terminal(<<"c", "q">>)>>),
    \* "ab" | "a" "b"? | "b"*
    Alternative(<<Terminal(<<"a", "b">>),
                  Sequence(<<Terminal(<<"a">>), Repeat("?", Terminal(<<"b">>))>>),
                  Repeat("*", Terminal(<<"b">>))>>),
    \* "ab" "c"
    Sequence(<<Terminal(<<"a", "b">>), Terminal(<<"c">>)>>),
    \* "a"? "b"? "c"
    Sequence(<<Repeat("?", Terminal(<<"a">>)), Repeat("?", Terminal(<<"b">>)),
               Terminal(<<"c">>)>>),
    \* "a" "b"? "c"*
    Sequence(<<Terminal(<<"a">>), Repeat("?", Terminal(<<"b">>)),
               Repeat("*", Terminal(<<"c">>))>>),
    \* "q" [^q]* "q" "c"
    Sequence(<<Terminal(<<"q">>), Repeat("*", NotQ),
               Terminal(<<"q">>), Terminal(<<"c">>)>>),
    \* ("a" "b")* "c"
    Sequence(<<Repeat("*", Sequence(<<Terminal(<<"a">>), Terminal(<<"b">>)>>)),
               Terminal(<<"c">>)>>),
    \* "b"? "d"
    Sequence(<<Repeat("?", Terminal(<<"b">>)), Terminal(<<"d">>)>>),
    \* ("ab")*
    Repeat("*", Terminal(<<"a", "b">>)),
    \* ("a" "b" | "c")?
    Repeat("?", Alternative(<<Sequence(<<Terminal(<<"a">>), Terminal(<<"b">>)>>),
                              Terminal(<<"c">>)>>)),
    \* (("ab")? "c")*
    Repeat("*", Sequence(<<Repeat("?", Terminal(<<"a", "b">>)), Terminal(<<"c">>)>>)),
    \* line line line, the one Sequence "a" "b"? of the rule line three times
    Sequence(<<Sequence(<<Terminal(<<"a">>), Repeat("?", Terminal(<<"b">>))>>),
               Sequence(<<Terminal(<<"a">>), Repeat("?", Terminal(<<"b">>))>>),
               Sequence(<<Terminal(<<"a">>), Repeat("?", Terminal(<<"b">>))>>)>>)
>>

\* A session fed toks, update_scores and advance for each: the matcher and
\* the caches it ends with, and whether every advance answered Again.
RECURSIVE Feed(_, _, _, _, _)
Feed(rs, self, bc, ac, toks) ==
    IF toks = <<>> THEN [live |-> TRUE, self |-> self, bc |-> bc, ac |-> ac]
    ELSE LET m == get_allowed_tokens(rs, self, bc, ac)
             r == advance(rs, m.self, Head(toks))
         IN IF r.a = Again THEN Feed(rs, r.self, m.bc, m.ac, Tail(toks))
            ELSE [live |-> FALSE, self |-> r.self, bc |-> m.bc, ac |-> m.ac]

\* A session whose root is symbol, fed toks from empty caches.
FeedRoot(symbol, toks) ==
    LET v == Grammar_validate("root" :> symbol)
    IN Feed(v.rs, enter_rule(v.rs, "root"), NoCache, NoCache, toks)

\* get_allowed_tokens called n times in a row on a matcher: the matcher and
\* the caches it leaves (the matcher untouched when n = 0).
RECURSIVE Asked(_, _, _, _, _)
Asked(rs, self, bc, ac, n) ==
    IF n = 0 THEN [self |-> self, bc |-> bc, ac |-> ac]
    ELSE LET m == get_allowed_tokens(rs, self, bc, ac)
         IN Asked(rs, m.self, m.bc, m.ac, n - 1)

\* A session fed toks in which get_allowed_tokens is called ns[i] times
\* before the i-th advance: the answers of the advances and, when all of
\* them were Again, the AllowedTokens returned after the last.
RECURSIVE FeedAsked(_, _, _, _, _, _)
FeedAsked(rs, self, bc, ac, toks, ns) ==
    IF toks = <<>>
    THEN [a |-> <<>>, rv |-> <<get_allowed_tokens(rs, self, bc, ac).rv>>]
    ELSE LET m == Asked(rs, self, bc, ac, Head(ns))
             r == advance(rs, m.self, Head(toks))
             f == FeedAsked(rs, r.self, m.bc, m.ac, Tail(toks), Tail(ns))
         IN IF r.a = Again THEN [a |-> <<r.a>> \o f.a, rv |-> f.rv]
            ELSE [a |-> <<r.a>>, rv |-> <<>>]

\* The grammars of the sessions with repeated get_allowed_tokens calls.
AskedGrammars == {5, 6, 7, 13, 14}

\* ------------------------------------------------- the tags of tags.py

\* SimpleText.tokens before ensure_tokens: None.
NoTokens == [computed |-> FALSE, ids |-> <<>>]

\* SimpleText.__init__ and reset; text stands for the token ids encode(text)
\* returns.
SimpleText(text) == [tag_name |-> "*", text |-> text, tokens |-> NoTokens]

\* SimpleText.accepts with ensure_tokens and get_allowed_tokens: the value
\* returned (rv) and the tag as the call leaves it.
SimpleText_accepts(self, token) ==
    LET ensured == IF self.tokens.computed THEN self
                   ELSE [self EXCEPT !.tokens = [computed |-> TRUE, ids |-> self.text]]
        allowed == IF Len(ensured.tokens.ids) = 0 THEN {}
                   ELSE {ensured.tokens.ids[1]}
    IN IF token \in allowed
       THEN LET self1 == [ensured EXCEPT !.tokens.ids = Tail(ensured.tokens.ids)]
            IN [rv |-> IF self1.tokens.ids = <<>> THEN 0 ELSE 1, self |-> self1]
       ELSE [rv |-> -1, self |-> ensured]

\* The attrs of a repeat tag: none, or times with the text of the attribute.
NoAttrs == [name \in {} |-> ""]

\* int(text) of the texts used: the number, or -1 for ValueError.
int(text) ==
    CASE text = "0" -> 0
      [] text = "1" -> 1
      [] text = "2" -> 2
      [] text = "3" -> 3
      [] OTHER -> -1

\* RepeatTag.__init__, with the children the template parser appends.
RepeatTag(attrs, children) ==
    [tag_name |-> "repeat", attrs |-> attrs, children |-> children,
     child_index |-> 0,
     times |-> IF "times" \in DOMAIN attrs
               THEN (IF int(attrs.times) = -1 THEN 0 ELSE int(attrs.times))
               ELSE -1]

\* TemplateTag.reset over children that are SimpleText.
TemplateTag_reset(self) ==
    [self EXCEPT !.child_index = 0,
                 !.children = [i \in DOMAIN self.children |->
                                 [self.children[i] EXCEPT !.tokens = NoTokens]]]

\* RepeatTag.accepts: the value returned (rv) and the tag as the call
\* leaves it.
RepeatTag_accepts(self, token) ==
    IF self.child_index < Len(self.children)
    THEN LET c == SimpleText_accepts(self.children[self.child_index + 1], token)
             self1 == [self EXCEPT !.children[self.child_index + 1] = c.self]
         IN IF c.rv = 0
            THEN LET self2 == [self1 EXCEPT !.child_index = self.child_index + 1]
                 IN IF self2.child_index >= Len(self2.children)
                    THEN IF self2.times = 0 THEN [rv |-> 0, self |-> self2]
                         ELSE LET self3 == TemplateTag_reset(self2)
                              IN [rv |-> 1,
                                  self |-> IF self3.times > 0
                                           THEN [self3 EXCEPT !.times = self3.times - 1]
                                           ELSE self3]
                    ELSE [rv |-> 1, self |-> self2]
            ELSE [rv |-> c.rv, self |-> self1]
    ELSE [rv |-> -1, self |-> self]

\* accepts called on each token of toks until it returns 0 or less: the
\* values returned and the tag left.
RECURSIVE FeedTag(_, _)
FeedTag(self, toks) ==
    IF toks = <<>> THEN [rv |-> <<>>, self |-> self]
    ELSE LET r == RepeatTag_accepts(self, Head(toks))
         IN IF r.rv > 0
            THEN LET f == FeedTag(r.self, Tail(toks))
                 IN [rv |-> <<r.rv>> \o f.rv, self |-> f.self]
            ELSE [rv |-> <<r.rv>>, self |-> r.self]

\* The most complete matches of its children a repeat tag is fed.
MaxPasses == 4

\* The attrs the repeat tags are built with.
RepeatAttrs ==
    {NoAttrs} \cup {[times |-> t] : t \in {"0", "1", "2", "3", "x"}}

\* The children of the repeat tags: the token ids of each SimpleText.
RepeatChildren == {<<<<1>>>>, <<<<1, 2>>>>, <<<<5>>, <<3>>>>, <<<<1>>, <<2, 3>>>>}

\* The tokens of one complete match of the children.
RECURSIVE PassTokens(_)
PassTokens(texts) ==
    IF texts = <<>> THEN <<>> ELSE Head(texts) \o PassTokens(Tail(texts))

\* toks n times over.
RECURSIVE Times(_, _)
Times(toks, n) == IF n = 0 THEN <<>> ELSE toks \o Times(toks, n - 1)

\* The rule names of the rule maps Grammar.resolve is called with.
RuleNames == <<"root", "line", "item">>

\* The rule maps: every rule is a reference to a rule name or a Terminal,
\* and any of the names may be left undefined.
RuleMaps ==
    UNION {[S -> {Symbol_NonTerminal(RuleNames[i]) : i \in DOMAIN RuleNames}
                    \cup {Symbol_Terminal(<<"a">>)}] :
              S \in SUBSET {RuleNames[i] : i \in DOMAIN RuleNames}}

\* The symbols resolve is called on: the object a rule holds (at), or an
\* object of its own that is an item somewhere in the grammar (symbol).
Resolved(bodies) ==
    {[at |-> n] : n \in DOMAIN bodies}
    \cup {[symbol |-> Symbol_NonTerminal(RuleNames[i])] : i \in DOMAIN RuleNames}
    \cup {[symbol |-> Symbol_Terminal(<<"b">>)]}

\* The objects of a rule map in the order of RuleNames, followed by the
\* symbol resolve is called on when it is an object of its own; id is that
\* symbol.
Heap(bodies, start) ==
    LET order == SelectSeq(RuleNames, LAMBDA n : n \in DOMAIN bodies)
        names == [n \in DOMAIN bodies |->
                    CHOOSE i \in DOMAIN order : order[i] = n]
        objs == [i \in DOMAIN order |-> bodies[order[i]]]
    IN IF "at" \in DOMAIN start
       THEN [g |-> [names |-> names, objs |-> objs], id |-> names[start.at]]
       ELSE [g |-> [names |-> names, objs |-> Append(objs, start.symbol)],
             id |-> Len(order) + 1]

\* The calls made: the function and its arguments.
Calls ==
    {[f |-> "get_suffix_prefix", suffix_from |-> a, prefix_from |-> b] :
        a \in Strs, b \in Strs}
    \cup {[f |-> "TerminalMatcher.advance", value |-> v, token_id |-> t] :
            v \in Strs, t \in TokenIds}
    \cup {[f |-> "combine", self |-> a, other |-> b] :
            a \in AllowedTokensValues, b \in AllowedTokensValues}
    \cup {[f |-> "apply", self |-> a, scores |-> sc] :
            a \in AllowedTokensValues, sc \in ScoresValues}
    \cup {[f |-> "AlternativeMatcher.advance", symbol |-> Alternatives[i],
            token_id |-> t, then |-> ts] :
            i \in DOMAIN Alternatives, t \in TokenIds, ts \in TokenSeqs(MaxSteps - 1)}
    \cup {[f |-> "Grammar", text |-> n] : n \in DOMAIN Recursions}
    \cup UNION {{[f |-> "resolve", rules |-> bodies, symbol |-> start] :
                    start \in Resolved(bodies)} : bodies \in RuleMaps}
    \cup UNION {{[f |-> "Matcher.advance", symbol |-> Entered[i], before |-> ts,
                    token_id |-> t] :
                    ts \in {x \in TokenSeqs(MaxSteps - 1) : FeedRoot(Entered[i], x).live},
                    t \in TokenIds} : i \in DOMAIN Entered}
    \cup UNION {{[f |-> "get_allowed_tokens", grammar |-> g, before |-> ts,
                    calls |-> ns] :
                    ns \in [DOMAIN ts -> 0 .. 2]} :
                    g \in AskedGrammars, ts \in TokenSeqs(MaxSteps - 2)}
    \cup {[f |-> "RepeatTag.accepts", attrs |-> a, children |-> c, passes |-> n] :
            a \in RepeatAttrs, c \in RepeatChildren, n \in 1 .. MaxPasses}
    \cup UNION {{[f |-> "parse", text |-> n, line |-> i] :
                    i \in DOMAIN Lines(Sources[n])} : n \in DOMAIN Sources}

InitCalls ==
    /\ rules = NoCache
    /\ active = NoMatcher
    /\ scores = RawScores
    /\ banned_cache = NoCache
    /\ allowed_cache = NoCache
    /\ emitted = <<>>
    /\ unmasked = TRUE
    /\ last = NoCall
    /\ raised = FALSE
    /\ pc = "call"
    /\ args \in Calls
    /\ ret = NoArgs
    /\ params = Built
    /\ tokenizer = 1

Call_get_suffix_prefix ==
    /\ pc = "call"
    /\ args.f = "get_suffix_prefix"
    /\ ret' = get_suffix_prefix(args.suffix_from, args.prefix_from)
    /\ pc' = "return"
    /\ UNCHANGED <<session, args>>
    /\ UNCHANGED host

\* advance of a TerminalMatcher just entered (index 0).
Call_TerminalMatcher_advance ==
    /\ pc = "call"
    /\ args.f = "TerminalMatcher.advance"
    /\ ret' = TerminalMatcher_advance(TerminalMatcher(Terminal(args.value)),
                                      args.token_id)
    /\ pc' = "return"
    /\ UNCHANGED <<session, args>>
    /\ UNCHANGED host

\* A session on the Alternative and one on each of its branches, each fed
\* token_id and then the tokens of then.
Call_AlternativeMatcher_advance ==
    /\ pc = "call"
    /\ args.f = "AlternativeMatcher.advance"
    /\ LET toks == <<args.token_id>> \o args.then
       IN ret' = [self |-> RunRoot(args.symbol, toks),
                  items |-> [i \in DOMAIN args.symbol.items |->
                                RunRoot(args.symbol.items[i], toks)]]
    /\ pc' = "return"
    /\ UNCHANGED <<session, args>>
    /\ UNCHANGED host

\* self.combine(other) and other.combine(self).
Call_combine ==
    /\ pc = "call"
    /\ args.f = "combine"
    /\ ret' = [ab |-> combine(args.self, args.other),
               ba |-> combine(args.other, args.self)]
    /\ pc' = "return"
    /\ UNCHANGED <<session, args>>
    /\ UNCHANGED host

\* self.apply(scores): the scores are changed in place.
Call_apply ==
    /\ pc = "call"
    /\ args.f = "apply"
    /\ ret' = apply(args.self, args.scores)
    /\ pc' = "return"
    /\ UNCHANGED <<session, args>>
    /\ UNCHANGED host

\* Grammar(definition) of grammar.py: reset(definition) on an object without
\* rules, and the exception that leaves it.
Call_Grammar ==
    /\ pc = "call"
    /\ args.f = "Grammar"
    /\ ret' = [exc |-> Grammar_reset([names |-> NoCache, objs |-> <<>>],
                                     Recursions[args.text]).exc]
    /\ pc' = "return"
    /\ UNCHANGED <<session, args>>
    /\ UNCHANGED host

\* The rules of a text parsed as it is, and with a comment at the end of
\* one of its lines.
Call_parse ==
    /\ pc = "call"
    /\ args.f = "parse"
    /\ ret' = [plain |-> Grammar_parse(NoCache, Sources[args.text]),
               commented |-> Grammar_parse(NoCache,
                                 Commented(Sources[args.text], args.line))]
    /\ pc' = "return"
    /\ UNCHANGED <<session, args>>
    /\ UNCHANGED host

\* A matcher that has consumed the tokens of before is asked for its
\* AllowedTokens and then advanced on token_id.  entered is the matcher
\* with the caches bc and ac before that, self the matcher advance is
\* called on, step what advance leaves behind.
Call_Matcher_advance ==
    /\ pc = "call"
    /\ args.f = "Matcher.advance"
    /\ LET rs == Grammar_validate("root" :> args.symbol).rs
           f == FeedRoot(args.symbol, args.before)
           m == get_allowed_tokens(rs, f.self, f.bc, f.ac)
       IN ret' = [rs |-> rs, entered |-> f.self, bc |-> m.bc, ac |-> m.ac,
                  allowed |-> m.rv, self |-> m.self,
                  step |-> advance(rs, m.self, args.token_id)]
    /\ pc' = "return"
    /\ UNCHANGED <<session, args>>
    /\ UNCHANGED host

\* Grammar.resolve(symbol) on a rule map: the object returned, 0 when
\* ValidationError is raised.
Call_resolve ==
    /\ pc = "call"
    /\ args.f = "resolve"
    /\ LET h == Heap(args.rules, args.symbol)
       IN ret' = [g |-> h.g, id |-> h.id,
                  rv |-> Symbol_resolve_checked(h.g, h.id, {})]
    /\ pc' = "return"
    /\ UNCHANGED <<session, args>>
    /\ UNCHANGED host

\* A session of a grammar is fed the tokens of before with get_allowed_tokens
\* called calls[i] times before the i-th advance (asked), and with one call
\* before each (once); entered is the root matcher as entered and self the
\* same matcher after get_allowed_tokens was called twice on it.
Call_get_allowed_tokens ==
    /\ pc = "call"
    /\ args.f = "get_allowed_tokens"
    /\ LET rs == Grammar_validate(Grammars[args.grammar]).rs
           m == enter_rule(rs, "root")
       IN ret' = [entered |-> m,
                  self |-> Asked(rs, m, NoCache, NoCache, 2).self,
                  asked |-> FeedAsked(rs, m, NoCache, NoCache, args.before,
                                      args.calls),
                  once |-> FeedAsked(rs, m, NoCache, NoCache, args.before,
                                     [i \in DOMAIN args.before |-> 1])]
    /\ pc' = "return"
    /\ UNCHANGED <<session, args>>
    /\ UNCHANGED host

\* A repeat tag with SimpleText children is fed the tokens of its children,
\* passes complete matches of them or until accepts returns 0 or less: rv
\* are the values accepts returned, pass the number of tokens of one match.
Call_RepeatTag_accepts ==
    /\ pc = "call"
    /\ args.f = "RepeatTag.accepts"
    /\ LET tag == RepeatTag(args.attrs,
                     [i \in DOMAIN args.children |-> SimpleText(args.children[i])])
           pass == PassTokens(args.children)
           f == FeedTag(tag, Times(pass, args.passes))
       IN ret' = [rv |-> f.rv, self |-> f.self, pass |-> Len(pass)]
    /\ pc' = "return"
    /\ UNCHANGED <<session, args>>
    /\ UNCHANGED host

NextCalls ==
    \/ Call_get_suffix_prefix
    \/ Call_TerminalMatcher_advance
    \/ Call_AlternativeMatcher_advance
    \/ Call_combine
    \/ Call_apply
    \/ Call_Grammar
    \/ Call_parse
    \/ Call_Matcher_advance
    \/ Call_resolve
    \/ Call_get_allowed_tokens
    \/ Call_RepeatTag_accepts

SpecCalls == InitCalls /\ [][NextCalls]_vars

\* ------------------------------------------- the host and the dictionary

\* get_token_dictionary: the exception raised ("none" if it returns), the
\* dictionary returned and params as the call leaves them.  The dictionary
\* is built when there is none or when it was built for another tokenizer
\* object than the one loaded.
get_token_dictionary(ps, tk) ==
    IF DOMAIN ps.token_dictionary = {} \/ ps.used_tokenizer # tk
    THEN IF ps.scores_size = 0
         THEN [exc |-> "AssertionError", rv |-> NoDictionary, params |-> ps]
         ELSE LET built == [i \in 0 .. ps.scores_size - 1 |-> decode_with(tk, i)]
              IN [exc |-> "none", rv |-> built,
                  params |-> Params(built, tk, ps.scores_size)]
    ELSE [exc |-> "none", rv |-> ps.token_dictionary, params |-> ps]

\* The extension as it is imported: params of script.py, and the tokenizer
\* the host has loaded.
InitHost ==
    /\ params = Params(NoDictionary, NoTokenizer, 0)
    /\ tokenizer = 1
    /\ pc = "call"
    /\ args = NoArgs
    /\ ret = NoArgs
    /\ rules = NoCache
    /\ active = NoMatcher
    /\ scores = RawScores
    /\ banned_cache = NoCache
    /\ allowed_cache = NoCache
    /\ emitted = <<>>
    /\ unmasked = TRUE
    /\ last = NoCall
    /\ raised = FALSE

\* The host loads another model: shared.tokenizer is a new object.
ReplaceTokenizer(t) ==
    /\ t # tokenizer
    /\ tokenizer' = t
    /\ pc' = "call"
    /\ UNCHANGED <<session, args, ret, params>>

\* TemplatingLogitsProcessor.__call__ records the length of the score
\* vector it is handed.
SetScoresSize(n) ==
    /\ n # params.scores_size
    /\ params' = [params EXCEPT !.scores_size = n]
    /\ pc' = "call"
    /\ UNCHANGED <<session, args, ret, tokenizer>>

\* A matcher asks for the dictionary.
GetTokenDictionary ==
    /\ LET r == get_token_dictionary(params, tokenizer)
       IN /\ params' = r.params
          /\ ret' = [exc |-> r.exc, rv |-> r.rv]
    /\ args' = [f |-> "get_token_dictionary"]
    /\ pc' = "return"
    /\ UNCHANGED <<session, tokenizer>>

\* TemplatingLogitsProcessor.__call__ when the template has no next tag:
\* AllowedTokens(allow_eos=True) is applied to the scores sc handed over.
Exhausted(sc) ==
    /\ scores' = apply(AllowedTokens({}, {}, FALSE, TRUE), sc)
    /\ args' = [f |-> "TemplatingLogitsProcessor", scores |-> sc]
    /\ pc' = "masked"
    /\ UNCHANGED <<rules, active, banned_cache, allowed_cache, emitted, unmasked,
                   last, raised, ret>>
    /\ UNCHANGED host

NextHost ==
    \/ \E t \in Tokenizers : ReplaceTokenizer(t)
    \/ \E n \in 1 .. MaxSize : SetScoresSize(n)
    \/ GetTokenDictionary
    \/ \E sc \in ScoresValues : Exhausted(sc)

SpecHost == InitHost /\ [][NextHost]_vars

\* ------------------------------------------- the language of a grammar

\* The text of a token sequence: decode(token_ids).
RECURSIVE decode(_)
decode(token_ids) ==
    IF token_ids = <<>> THEN <<>>
    ELSE d[Head(token_ids)] \o decode(Tail(token_ids))

\* Whether the string s is derived from symbol: the language the grammar
\* text denotes, defined on characters and without reference to matchers.
\* A character class stands for one character of the class, or for one or
\* more with "+"; AnyToken stands for any text.
RECURSIVE Derives(_, _, _)
RECURSIVE DerivesItems(_, _, _, _)

DerivesItems(rs, items, i, s) ==
    IF i > Len(items) THEN s = <<>>
    ELSE \E n \in 0 .. Len(s) :
            /\ Derives(rs, items[i], SubSeq(s, 1, n))
            /\ DerivesItems(rs, items, i + 1, SubSeq(s, n + 1, Len(s)))

Derives(rs, symbol, s) ==
    CASE symbol.k = "Terminal" -> s = symbol.value
      [] symbol.k = "RegExp" ->
            /\ Len(s) >= 1
            /\ symbol.plus \/ Len(s) = 1
            /\ \A i \in 1 .. Len(s) : (s[i] \in symbol.cls) = ~symbol.negative
      [] symbol.k = "AnyToken" -> TRUE
      [] symbol.k = "NonTerminal" -> Derives(rs, rs[symbol.name], s)
      [] symbol.k = "Sequence" -> DerivesItems(rs, symbol.items, 1, s)
      [] symbol.k = "Alternative" ->
            \E i \in DOMAIN symbol.items : Derives(rs, symbol.items[i], s)
      [] symbol.k = "Repeat" ->
            \/ s = <<>>
            \/ Derives(rs, symbol.item, s)
            \/ /\ symbol.mode = "*"
               /\ \E n \in 1 .. Len(s) - 1 :
                    /\ Derives(rs, symbol.item, SubSeq(s, 1, n))
                    /\ Derives(rs, symbol, SubSeq(s, n + 1, Len(s)))

\* The text emitted so far is a sentence of the grammar.
Sentence == Derives(rules, rules["root"], decode(emitted))

\* ------------------------------------------- what a session can still do

\* A session as far as masks and advances depend on it.
Session(self, bc, ac, a) == [active |-> self, bc |-> bc, ac |-> ac, a |-> a]

\* The session after update_scores and advance(token_id).
After(st, token_id) ==
    LET m == mask_active(rules, st.active, st.bc, st.ac, RawScores)
        r == Grammar_advance(rules, m.self, token_id)
    IN Session(r.active, m.bc, m.ac, r.a)

Mask(st) == Finite(mask_active(rules, st.active, st.bc, st.ac, RawScores).scores)

\* The host may end the stream here: the root finished on the last token,
\* or the session is live and EOS is unmasked.
Accepting(st) ==
    IF st.active.k = "None" THEN st.a = Done
    ELSE eos_token_id \in Mask(st)

RECURSIVE Reach(_, _)
Reach(seen, frontier) ==
    IF frontier = {} THEN seen
    ELSE LET new == UNION {{After(st, t) : t \in Mask(st) \ {eos_token_id}} :
                              st \in {x \in frontier : x.active.k # "None"}}
         IN Reach(seen \cup new, new \ seen)

\* Some sequence of unmasked tokens leads st to acceptance.
CanAccept(st) == \E x \in Reach({st}, {st}) : Accepting(x)


\* The matchers on the live path of a matcher tree: the current child of a
\* Sequence and the children it has materialised ahead, the remaining
\* children of an Alternative, the effective item of a Repeat.
RECURSIVE LiveMatchers(_)
LiveMatchers(self) ==
    CASE self.k = "None" -> {}
      [] self.k = "SequenceMatcher" ->
            {self} \cup UNION {LiveMatchers(self.items[i]) :
                                 i \in self.index + 1 .. Len(self.items)}
      [] self.k = "AlternativeMatcher" ->
            {self} \cup UNION {LiveMatchers(self.items[i]) : i \in DOMAIN self.items}
      [] self.k = "RepeatMatcher" -> {self} \cup LiveMatchers(self.effective_item)
      [] OTHER -> {self}

LiveTerminals == {m \in LiveMatchers(active) : m.k = "TerminalMatcher"}

\* s is a prefix of r.
IsPrefix(s, r) == Len(s) <= Len(r) /\ \A i \in 1 .. Len(s) : s[i] = r[i]

\* ---------------------------------------------------------------- claims

\* C1 (emitted-stream soundness): whenever the root matcher has answered
\* Done and every token advanced since construction or reset was unmasked
\* when it was advanced, the decoded text of those tokens is a sentence of
\* the grammar.
C1_EmittedStreamSound ==
    (unmasked /\ last.called /\ last.a = Done) => Sentence

\* C2 (soundness of masking): after update_scores, every token left
\* unmasked in a session that has only seen unmasked tokens can be followed
\* by unmasked tokens up to acceptance: no unmasked token is a dead end.
C2_NoDeadEnd ==
    (pc = "advance" /\ unmasked /\ active.k # "None") =>
        \A t \in Finite(scores) \ {eos_token_id} :
            CanAccept(Session(Grammar_advance(rules, active, t).active,
                              banned_cache, allowed_cache,
                              Grammar_advance(rules, active, t).a))

\* C3 (progress): after update_scores on a live session that has only seen
\* unmasked tokens, advance of any token left unmasked is accepted: the root
\* does not answer Reject.
C3_Progress ==
    (pc = "advance" /\ unmasked /\ active.k # "None") =>
        \A t \in Finite(scores) : advance(rules, active, t).a # Reject

\* C4 (EOS gating): after update_scores in a session that has only seen
\* unmasked tokens, EOS is unmasked exactly when the text so far is a
\* sentence (the remaining language contains the empty string) or the
\* session has terminated.
C4_EosGating ==
    (pc = "advance" /\ unmasked) =>
        ((eos_token_id \in Finite(scores)) <=> (active.k = "None" \/ Sentence))

\* C5 (masked token refused): in a live session after update_scores, advance
\* of any non-EOS token the mask excluded is answered Reject and leaves the
\* session without an active matcher.
C5_MaskedTokenRefused ==
    (pc = "advance" /\ active.k # "None") =>
        \A t \in (TokenIds \ Finite(scores)) \ {eos_token_id} :
            /\ Grammar_advance(rules, active, t).a = Reject
            /\ Grammar_advance(rules, active, t).active = NoMatcher

\* C6 (EOS refused where the language is not nullable): in a live session
\* whose text so far is not a sentence, advance(EOS) is answered Reject and
\* leaves the session without an active matcher.
C6_EosRefused ==
    (pc = "advance" /\ active.k # "None" /\ ~Sentence) =>
        /\ Grammar_advance(rules, active, eos_token_id).a = Reject
        /\ Grammar_advance(rules, active, eos_token_id).active = NoMatcher

\* C7 (terminated session forces EOS): from a session without an active
\* matcher, every step other than reset leaves it without one, and
\* update_scores leaves exactly the EOS token finite.
C7_TerminatedForcesEos ==
    [][(active.k = "None" /\ ~(emitted # <<>> /\ emitted' = <<>>)) =>
            /\ active'.k = "None"
            /\ pc = "mask" => Finite(scores') = {eos_token_id}]_vars

\* A terminated session that has been advanced again and then masked.
C7_Witness ==
    /\ active.k = "None"
    /\ emitted # <<>>
    /\ ~last.called
    /\ pc = "advance"
    /\ Finite(scores) = {eos_token_id}

\* C8 (session advance never throws): in a grammar.py session, no call of
\* Grammar.advance, for any token id, masked or not, lets an exception
\* escape; refusal is only ever signalled by clearing the active symbol.
C8_AdvanceNeverThrows == ~raised

\* C9 (Terminal allowed set): for every live TerminalMatcher the allowed set
\* is the set of token ids whose string is a non-empty prefix of
\* value[index:], and the EOS id is not in it.
C9_TerminalAllowedSet ==
    \A m \in LiveTerminals :
        LET rv == TerminalMatcher_get_allowed_tokens(m)
            rest == Slice(m.symbol.value, m.index, Len(m.symbol.value))
        IN /\ rv.allowed = {t \in TokenIds : d[t] # <<>> /\ IsPrefix(d[t], rest)}
           /\ eos_token_id \notin rv.allowed

\* C10 (Terminal exactness): a live TerminalMatcher has 0 <= index <
\* len(value); advance of a token whose string matches value at index moves
\* index forward by the length of that string and answers Done exactly when
\* index reaches len(value).
C10_TerminalExact ==
    \A m \in LiveTerminals :
        /\ 0 <= m.index /\ m.index < Len(m.symbol.value)
        /\ \A t \in TokenIds :
            IsPrefix(d[t], Slice(m.symbol.value, m.index, Len(m.symbol.value))) =>
                LET r == TerminalMatcher_advance(m, t)
                IN /\ r.self.index = m.index + Len(d[t])
                   /\ (r.a = Done) <=> (r.self.index = Len(m.symbol.value))
                   /\ r.a \in {Done, Again}


\* The longest string that is both a suffix of a and a prefix of b.
LongestOverlap(a, b) ==
    LET ns == {n \in 0 .. Min(Len(a), Len(b)) :
                  SubSeq(a, Len(a) - n + 1, Len(a)) = SubSeq(b, 1, n)}
    IN SubSeq(b, 1, CHOOSE n \in ns : \A k \in ns : k <= n)

\* C11 (mid-terminal entry uses the longest overlap): get_suffix_prefix(a, b)
\* returns the longest string that is a suffix of a and a prefix of b; a
\* TerminalMatcher at index 0 advanced with a token that does not match the
\* start of its value sets index to the length of the longest non-empty
\* overlap, answering Done if that covers the value and Again otherwise,
\* and answers Reject only when there is no such overlap.
C11_LongestOverlap ==
    /\ (pc = "return" /\ args.f = "get_suffix_prefix") =>
            ret = LongestOverlap(args.suffix_from, args.prefix_from)
    /\ (pc = "return" /\ args.f = "TerminalMatcher.advance"
            /\ d[args.token_id] #
                 Slice(args.value, 0, Len(d[args.token_id]))) =>
            LET o == LongestOverlap(d[args.token_id], args.value)
            IN IF o = <<>> THEN ret.a = Reject
               ELSE /\ ret.self.index = Len(o)
                    /\ ret.a = IF Len(o) >= Len(args.value) THEN Done ELSE Again


\* t holds a character the negative class of symbol forbids.
HasForbidden(symbol, t) == \E i \in 1 .. Len(t) : t[i] \in symbol.cls

\* t splits into a non-empty head without forbidden characters and a
\* non-empty tail that is a prefix of value.
SplitsInto(symbol, t, value) ==
    \E k \in 1 .. Len(t) - 1 :
        /\ ~HasForbidden(symbol, SubSeq(t, 1, k))
        /\ IsPrefix(SubSeq(t, k + 1, Len(t)), value)

\* C12 (negative RegExp ban set with look-ahead exemption): for every live
\* matcher of a negative RegExp, get_allowed_tokens bans a token exactly
\* when its string holds a forbidden character and, if a next terminal is
\* recorded, does not split into a legal non-empty head and a non-empty
\* tail that is a prefix of that terminal's value.
C12_NegativeBanSet ==
    \A m \in LiveMatchers(active) :
        (m.k = "RegExpMatcher" /\ m.symbol.negative) =>
            RegExpMatcher_get_allowed_tokens(m, banned_cache, allowed_cache).rv.banned
                = {t \in TokenIds :
                      /\ HasForbidden(m.symbol, d[t])
                      /\ ~(m.symbol.next.has
                           /\ SplitsInto(m.symbol, d[t], m.symbol.next.value))}


\* The tokens whose non-empty head satisfies the negative class of symbol
\* and whose tail is exactly value.
BoundaryTokens(symbol, value) ==
    {t \in TokenIds :
        \E k \in 1 .. Len(d[t]) - 1 :
            /\ ~HasForbidden(symbol, SubSeq(d[t], 1, k))
            /\ SubSeq(d[t], k + 1, Len(d[t])) = value}

\* The active matcher is a sequence positioned at a Repeat(*) of a negative
\* RegExp that records the following Terminal, which has a successor U.
AtBoundaryRepeat ==
    /\ active.k = "SequenceMatcher"
    /\ active.index + 3 <= Len(active.symbol.items)
    /\ LET r == active.symbol.items[active.index + 1]
           t == active.symbol.items[active.index + 2]
       IN /\ r.k = "Repeat" /\ r.mode = "*"
          /\ r.item.k = "RegExp" /\ r.item.negative
          /\ t.k = "Terminal"
          /\ r.item.next.has /\ r.item.next.value = t.value

\* C13 (boundary token crosses into the next terminal): positioned at
\* Repeat(*, negative RegExp R) followed by Terminal T and a symbol U, every
\* token whose head satisfies R and whose tail equals T.value is unmasked,
\* and advancing it leaves the sequence at U.
C13_BoundaryToken ==
    (pc = "advance" /\ AtBoundaryRepeat) =>
        LET r == active.symbol.items[active.index + 1].item
        IN \A t \in BoundaryTokens(r, r.next.value) :
               /\ t \in Finite(scores)
               /\ LET st == advance(rules, active, t)
                  IN /\ st.a = Again
                     /\ st.self.index = active.index + 2


\* The root rule resolves to the AnyToken symbol.
RootIsAnyToken == resolve(rules, rules["root"]).k = "AnyToken"

\* C14 (AnyToken never terminates): when root resolves to AnyToken, after
\* any advances the effective matcher is still an AnyTokenMatcher, its
\* AllowedTokens ban no token and allow EOS, and the mask leaves every
\* score finite.
C14_AnyTokenForever ==
    RootIsAnyToken =>
        /\ get_effective_matcher(active).k = "AnyTokenMatcher"
        /\ LET rv == get_allowed_tokens(rules, active, banned_cache, allowed_cache).rv
           IN /\ rv.banned = {} /\ rv.allowed = {}
              /\ rv.allow_eos
              /\ Finite(apply(rv, RawScores)) = TokenIds
        /\ pc = "advance" => Finite(scores) = TokenIds

\* AnyToken has consumed as many tokens as the session allows, the
\* end-of-sequence token among them, and was asked for a mask again.
C14_Witness ==
    /\ RootIsAnyToken
    /\ Len(emitted) = MaxSteps
    /\ \E i \in DOMAIN emitted : emitted[i] = eos_token_id
    /\ last.called /\ last.a = Again
    /\ pc = "advance"


\* The branches of the Alternative called on that accepted the first token.
Accepted == {i \in DOMAIN ret.items : ret.items[i][1].a \in {Again, Done}}

\* C15 (Alternative idempotence): when exactly one branch accepts the first
\* token and all others refuse it, the Alternative answers that token as the
\* branch does, and every later mask and answer equals that of a session
\* that entered the branch directly.
C15_AlternativeIdempotent ==
    (pc = "return" /\ args.f = "AlternativeMatcher.advance"
        /\ Cardinality(Accepted) = 1) =>
        \A i \in Accepted :
            /\ ret.self[1].a = ret.items[i][1].a
            /\ Tail(ret.self) = Tail(ret.items[i])


\* The token id t is admitted by the AllowedTokens x: every id when both
\* sets are empty, the allowed ids of a positive set, the ids not banned of
\* a negative one.
Admits(x, t) ==
    IF x.allowed = {} /\ x.banned = {} THEN TRUE
    ELSE IF x.allowed # {} THEN t \in x.allowed
    ELSE t \notin x.banned

\* C16 (combine is the union of admitted tokens): a.combine(b) admits a
\* token id exactly when a or b admits it, its allow_eos and look_ahead are
\* the OR of the operands', at most one of its sets is non-empty, and
\* b.combine(a) is the same AllowedTokens.
C16_CombineUnion ==
    (pc = "return" /\ args.f = "combine") =>
        /\ \A t \in TokenIds :
               Admits(ret.ab, t) <=> (Admits(args.self, t) \/ Admits(args.other, t))
        /\ ret.ab.allow_eos = (args.self.allow_eos \/ args.other.allow_eos)
        /\ ret.ab.look_ahead = (args.self.look_ahead \/ args.other.look_ahead)
        /\ (ret.ab.allowed = {} \/ ret.ab.banned = {})
        /\ ret.ab = ret.ba

\* A positive set was combined with a negative one that bans one of its
\* ids and another id, and the result is negative.
C16_Witness ==
    /\ pc = "return" /\ args.f = "combine"
    /\ args.self.allowed # {} /\ args.other.banned # {}
    /\ args.self.allowed \cap args.other.banned # {}
    /\ ret.ab.banned # {}
    /\ args.other.look_ahead /\ ~args.self.look_ahead

\* C17 (apply only masks): apply writes minus infinity to every id other
\* than EOS that the set does not admit, and to EOS when allow_eos is
\* false; every other score is left as it was.
C17_ApplyOnlyMasks ==
    (pc = "return" /\ args.f = "apply") =>
        \A i \in TokenIds :
            ret[i] = IF \/ i # eos_token_id /\ ~Admits(args.self, i)
                        \/ i = eos_token_id /\ ~args.self.allow_eos
                     THEN MINUS_INF
                     ELSE args.scores[i]


\* The symbol object o as its constructor leaves it.
Constructed(o) ==
    CASE o.k = "Terminal" -> Symbol_Terminal(o.value)
      [] o.k = "RegExp" -> Symbol_RegExp(o.negative, o.cls, o.plus)
      [] o.k = "NonTerminal" -> Symbol_NonTerminal(o.name)
      [] o.k = "Sequence" -> Symbol_Sequence(o.items)
      [] o.k = "Alternative" -> Symbol_Alternative(o.items)
      [] o.k = "Repeat" -> Symbol_Repeat(o.mode, o.item)

\* The session Grammar(definition) constructs from the text the rules of g
\* were parsed from.
FreshSession(g) ==
    Symbols_enter_rule(
        [g EXCEPT !.objs = [i \in DOMAIN g.objs |-> Constructed(g.objs[i])]],
        "root")

\* The masks and the outcomes of advance of a grammar.py session fed toks.
RECURSIVE RunSymbols(_, _, _)
RunSymbols(g, self, toks) ==
    IF toks = <<>> THEN <<>>
    ELSE LET sc == IF self.k = "None" THEN force_eos(RawScores)
                   ELSE Symbols_update_scores(g, self.id, RawScores)
             r == Symbols_advance(g, self, Head(toks))
         IN <<[mask |-> Finite(sc), a |-> r.a, raised |-> r.raised,
               stopped |-> r.active.k = "None"]>>
            \o RunSymbols(r.g, r.active, Tail(toks))

\* C18 (reset restores the initial state): after any update_scores and
\* advance calls, Grammar.reset() leaves a session whose masks and advance
\* outcomes, for every token sequence, are those of a session freshly
\* constructed from the same grammar.
C18_ResetRestores ==
    (pc = "mask" /\ emitted = <<>>) =>
        LET fresh == FreshSession(rules)
        IN \A toks \in TokenSeqs(MaxSteps) :
               RunSymbols(rules, active, toks) = RunSymbols(fresh.g, fresh.active, toks)


\* The rule names the text n defines.
TextNames(n) == {Texts[n][i].name : i \in DOMAIN Texts[n]}

\* C19 (missing root is always an error): a reset(text) whose text defines
\* no rule named root raises ValidationError, whatever the session held
\* before; and after a load that raised nothing the rule map holds exactly
\* the rules the text defines.
C19_MissingRoot ==
    (args.f \in {"Grammar", "reset"}) =>
        /\ "root" \notin TextNames(args.definition) => ret.exc = "ValidationError"
        /\ ret.exc = "none" => DOMAIN rules.names = TextNames(args.definition)

\* C20 (duplicate rules are rejected): loading a text that defines a rule
\* name more than once raises ValidationError.
C20_DuplicateRejected ==
    (args.f \in {"Grammar", "reset"}
        /\ \E i, j \in DOMAIN Texts[args.definition] :
               i # j /\ Texts[args.definition][i].name = Texts[args.definition][j].name) =>
        ret.exc = "ValidationError"


\* The symbols reachable from symbol at any depth: the items of a Sequence
\* or Alternative, the item of a Repeat, the rule a reference names (seen
\* holds the names already followed).
RECURSIVE SymbolsUnder(_, _, _)
SymbolsUnder(rs, symbol, seen) ==
    {symbol} \cup
    CASE symbol.k \in {"Sequence", "Alternative"} ->
            UNION {SymbolsUnder(rs, symbol.items[i], seen) : i \in DOMAIN symbol.items}
      [] symbol.k = "Repeat" -> SymbolsUnder(rs, symbol.item, seen)
      [] symbol.k = "NonTerminal" ->
            IF symbol.name \in DOMAIN rs /\ symbol.name \notin seen
            THEN SymbolsUnder(rs, rs[symbol.name], seen \cup {symbol.name})
            ELSE {}
      [] OTHER -> {}

\* C21 (validation covers the whole grammar): no session exists whose
\* grammar holds, anywhere under root, an empty terminal or a reference to
\* a rule name that is not defined.
C21_ValidationCoversGrammar ==
    \A s \in SymbolsUnder(rules, rules["root"], {}) :
        /\ ~(s.k = "Terminal" /\ s.value = <<>>)
        /\ ~(s.k = "NonTerminal" /\ s.name \notin DOMAIN rules)


\* The references from the object id lead through n further rules without
\* reaching a production.
RECURSIVE OnlyReferences(_, _, _)
OnlyReferences(g, id, n) ==
    /\ g.objs[id].k = "NonTerminal"
    /\ n = 0 \/ OnlyReferences(g, g.names[g.objs[id].name], n - 1)

\* The text holds a cycle made of rule references alone.
ReferenceCycle(text) ==
    LET g == parse_rules([names |-> NoCache, objs |-> <<>>], text, 1)
    IN \E id \in DOMAIN g.objs : OnlyReferences(g, id, Len(g.objs))

\* C22 (validation terminates on productive recursion): Grammar(text)
\* reports a ValidationError for a text with a cycle made of rule references
\* alone, and accepts every other text, whose cycles all pass through a
\* production.
C22_ProductiveRecursion ==
    (pc = "return" /\ args.f = "Grammar") =>
        ret.exc = IF ReferenceCycle(Recursions[args.text]) THEN "ValidationError"
                  ELSE "none"


\* C23 (comment-strip equivalence): a grammar text, and the same text with
\* a comment appended to one of its lines, are both parsed or both refused,
\* and when parsed give the same rule map of the same symbol trees.
C23_CommentStrip ==
    (pc = "return" /\ args.f = "parse") =>
        /\ (ret.plain.exc = "none") <=> (ret.commented.exc = "none")
        /\ ret.plain.exc = "none" => ret.plain.rules = ret.commented.rules


\* C24 (token dictionary follows the tokenizer): whatever tokenizers were
\* loaded and whatever sizes recorded before, the dictionary a call of
\* get_token_dictionary returns maps every id below scores_size, and no
\* other, to the text the loaded tokenizer decodes it to.
C24_DictionaryFollows ==
    (pc = "return" /\ ret.exc = "none") =>
        ret.rv = [i \in 0 .. params.scores_size - 1 |-> decode_with(tokenizer, i)]


\* The matchers of one class on the live path of the matcher advance was
\* called on.
LiveOf(k) == {m \in LiveMatchers(ret.self) : m.k = k}

\* The answer each live child of the AlternativeMatcher m gives to token_id.
ChildAnswers(m, token_id) ==
    [i \in DOMAIN m.items |-> advance(ret.rs, m.items[i], token_id).a]

\* C25 (Alternative first-Done wins): if on a token any live child of an
\* AlternativeMatcher answers Done, the advance of the AlternativeMatcher
\* answers Done and no child is left, the children that answered Again on
\* that token included.
C25_AlternativeFirstDone ==
    (pc = "return" /\ args.f = "Matcher.advance") =>
        \A m \in LiveOf("AlternativeMatcher") :
            LET answers == ChildAnswers(m, args.token_id)
                r == AlternativeMatcher_advance(ret.rs, m, args.token_id)
            IN (\E i \in DOMAIN answers : answers[i] = Done) =>
                   r.a = Done /\ r.self.items = <<>>


\* The orders in which n children can be visited.
Orders(n) == {p \in [1 .. n -> 1 .. n] : \A i, j \in 1 .. n : p[i] = p[j] => i = j}

\* C26 (Alternative outcome when the live set empties): advance of an
\* AlternativeMatcher drops each child that answers Reject, TryNext or Done
\* and keeps the others as their own advance left them; when no child
\* remains it answers Done if some child answered Done, otherwise TryNext
\* if some child answered TryNext, otherwise Reject; the answer and the
\* children that remain are the same in whatever order the children are
\* visited.
C26_AlternativeOutcome ==
    (pc = "return" /\ args.f = "Matcher.advance") =>
        \A m \in LiveOf("AlternativeMatcher") :
            LET answers == ChildAnswers(m, args.token_id)
                stay == {i \in DOMAIN m.items : answers[i] = Again}
            IN \A p \in Orders(Len(m.items)) :
                LET visited == [m EXCEPT !.items = [i \in DOMAIN m.items |-> m.items[p[i]]]]
                    r == AlternativeMatcher_advance(ret.rs, visited, args.token_id)
                IN /\ Len(r.self.items) = Cardinality(stay)
                   /\ {r.self.items[j] : j \in DOMAIN r.self.items}
                        = {advance(ret.rs, m.items[i], args.token_id).self : i \in stay}
                   /\ stay = {} =>
                        r.a = IF \E i \in DOMAIN answers : answers[i] = Done THEN Done
                              ELSE IF \E i \in DOMAIN answers : answers[i] = TryNext
                              THEN TryNext
                              ELSE Reject

\* An Alternative of three children was advanced on a token that one child
\* answered with Done, one with TryNext and one with Reject: no child is
\* left and the answer is Done.
C26_Witness ==
    /\ pc = "return" /\ args.f = "Matcher.advance"
    /\ ret.self.k = "AlternativeMatcher"
    /\ LET answers == ChildAnswers(ret.self, args.token_id)
       IN {answers[i] : i \in DOMAIN answers} = {Done, TryNext, Reject}
    /\ ret.step.a = Done
    /\ ret.step.self.items = <<>>


\* The child i (from 0) of the SequenceMatcher m as advance finds it: the
\* matcher already there, or the one entered when the index reaches it.
ChildAt(m, i) == ensure_matcher(ret.rs, m, i).items[i + 1]

\* The child that answers token_id once the children from i on that answer
\* TryNext are passed over, and its answer; the last child answers in any
\* case.
RECURSIVE Settles(_, _, _)
Settles(m, i, token_id) ==
    LET a == advance(ret.rs, ChildAt(m, i), token_id).a
    IN IF a = TryNext /\ i < Len(m.symbol.items) - 1
       THEN Settles(m, i + 1, token_id)
       ELSE [index |-> i, a |-> a]

\* C27 (Sequence advance protocol): SequenceMatcher.advance answers Again
\* with the index unchanged when the current child answers Again; when the
\* child answers Done it moves the index to the next child and answers
\* Again, or answers Done if the child was the last; when the child answers
\* TryNext it moves on and offers the same token to the next child, again
\* and again while children answer TryNext, or answers TryNext if the child
\* was the last; when the child answers Reject it answers Reject.
C27_SequenceProtocol ==
    (pc = "return" /\ args.f = "Matcher.advance") =>
        \A m \in LiveOf("SequenceMatcher") :
            LET s == Settles(m, m.index, args.token_id)
                islast == s.index = Len(m.symbol.items) - 1
                r == SequenceMatcher_advance(ret.rs, m, args.token_id)
            IN CASE s.a = Again -> r.a = Again /\ r.self.index = s.index
                 [] s.a = Done /\ ~islast -> r.a = Again /\ r.self.index = s.index + 1
                 [] s.a = Done /\ islast -> r.a = Done
                 [] s.a = TryNext -> islast /\ r.a = TryNext
                 [] s.a = Reject -> r.a = Reject

\* A Sequence of three children at its first child was advanced on a token
\* the first child answered with TryNext and the second with Done: the
\* Sequence answers Again and stands at its third child.
C27_Witness ==
    /\ pc = "return" /\ args.f = "Matcher.advance"
    /\ ret.self.k = "SequenceMatcher"
    /\ ret.self.index = 0
    /\ advance(ret.rs, ChildAt(ret.self, 0), args.token_id).a = TryNext
    /\ advance(ret.rs, ChildAt(ret.self, 1), args.token_id).a = Done
    /\ ret.step.a = Again
    /\ ret.step.self.index = 2


\* The AllowedTokens of the child i (from 0) of the SequenceMatcher m, asked
\* with the caches bc and ac.
ChildAllowed(m, i, bc, ac) == get_allowed_tokens(ret.rs, ChildAt(m, i), bc, ac).rv

\* C28 (Sequence look-ahead union): SequenceMatcher.get_allowed_tokens
\* admits exactly the tokens admitted by the current child or by a later
\* child j such that every child from the current one up to j-1 signalled
\* look_ahead, and these are the tokens other than EOS its mask leaves
\* finite; its look_ahead is true if and only if every child from the
\* current one through the last signalled look_ahead.
C28_SequenceLookAhead ==
    (pc = "return" /\ args.f = "Matcher.advance") =>
        \A m \in LiveOf("SequenceMatcher") :
            LET r == SequenceMatcher_get_allowed_tokens(ret.rs, m, ret.bc, ret.ac)
                children == m.index .. Len(m.symbol.items) - 1
                ahead(i) == ChildAllowed(m, i, r.bc, r.ac)
                reached(j) == \A i \in m.index .. j - 1 : ahead(i).look_ahead
                union == {t \in TokenIds :
                            \E j \in children : reached(j) /\ Admits(ahead(j), t)}
            IN /\ {t \in TokenIds : Admits(r.rv, t)} = union
               /\ Finite(apply(r.rv, RawScores)) \ {eos_token_id}
                    = union \ {eos_token_id}
               /\ r.rv.look_ahead = (\A i \in children : ahead(i).look_ahead)

\* A Sequence of two optional children and a mandatory one was asked at its
\* first child: the tokens of all three are admitted and no others, and
\* look_ahead is false.
C28_Witness ==
    /\ pc = "return" /\ args.f = "Matcher.advance"
    /\ ret.self.k = "SequenceMatcher"
    /\ ret.self.index = 0
    /\ Len(ret.self.items) = 3
    /\ ChildAllowed(ret.self, 0, ret.bc, ret.ac).look_ahead
    /\ ChildAllowed(ret.self, 1, ret.bc, ret.ac).look_ahead
    /\ ~ChildAllowed(ret.self, 2, ret.bc, ret.ac).look_ahead
    /\ ret.allowed.allowed =
          UNION {ChildAllowed(ret.self, i, ret.bc, ret.ac).allowed : i \in 0 .. 2}
    /\ Cardinality(ret.allowed.allowed) = 3
    /\ ~ret.allowed.look_ahead


\* C29 (Repeat advance rules): RepeatMatcher.advance answers Again and sets
\* inside when the inner matcher answers Again; when the inner answers Done
\* it replaces the inner by a freshly entered matcher, clears inside and
\* answers Again for mode "*", and answers Done for mode "?"; when the
\* inner answers Reject it answers Reject if inside is true and TryNext if
\* inside is false.
C29_RepeatRules ==
    (pc = "return" /\ args.f = "Matcher.advance") =>
        \A m \in LiveOf("RepeatMatcher") :
            LET inner == advance(ret.rs, m.effective_item, args.token_id)
                r == RepeatMatcher_advance(ret.rs, m, args.token_id)
            IN CASE inner.a = Again ->
                        r.a = Again /\ r.self.inside /\ r.self.effective_item = inner.self
                 [] inner.a = Done /\ m.symbol.mode = "*" ->
                        /\ r.a = Again
                        /\ ~r.self.inside
                        /\ r.self.effective_item
                             = enter(ret.rs, resolve(ret.rs, m.symbol.item))
                 [] inner.a = Done /\ m.symbol.mode = "?" -> r.a = Done
                 [] inner.a = Reject -> r.a = (IF m.inside THEN Reject ELSE TryNext)
                 [] OTHER -> TRUE

\* A "*" Repeat inside an iteration was advanced on the token that finishes
\* the iteration: it answers Again, its inner matcher is entered anew and
\* inside is false.
C29_Witness ==
    /\ pc = "return" /\ args.f = "Matcher.advance"
    /\ ret.self.k = "RepeatMatcher"
    /\ ret.self.symbol.mode = "*"
    /\ ret.self.inside
    /\ advance(ret.rs, ret.self.effective_item, args.token_id).a = Done
    /\ ret.step.a = Again
    /\ ~ret.step.self.inside
    /\ ret.step.self.effective_item # ret.self.effective_item

\* The tokens the inner matcher of a Repeat at the root has consumed since
\* it was entered or entered again, after the tokens of toks: counted from
\* the answers of the inner matcher, starting from n.
RECURSIVE Consumed(_, _, _, _, _)
Consumed(self, bc, ac, toks, n) ==
    IF toks = <<>> THEN n
    ELSE LET m == get_allowed_tokens(ret.rs, self, bc, ac)
             inner == advance(ret.rs, m.self.effective_item, Head(toks))
             r == advance(ret.rs, m.self, Head(toks))
         IN Consumed(r.self, m.bc, m.ac, Tail(toks),
                     IF inner.a = Again THEN n + 1 ELSE 0)

\* The tokens consumed by the inner matcher of the Repeat symbol called on
\* after toks.
ConsumedAfter(toks) ==
    Consumed(enter_rule(ret.rs, "root"), NoCache, NoCache, toks, 0)

\* C30 (Repeat 'inside' invariant): in every state of a live RepeatMatcher
\* inside is true if and only if the current inner matcher has consumed at
\* least one token since it was entered or entered again, and
\* get_allowed_tokens returns the AllowedTokens of the inner matcher with
\* look_ahead set to true whenever inside is false.
C30_RepeatInside ==
    (pc = "return" /\ args.f = "Matcher.advance") =>
        /\ ret.self.k = "RepeatMatcher" =>
              /\ ret.self.inside = (ConsumedAfter(args.before) > 0)
              /\ ret.step.a = Again =>
                    ret.step.self.inside
                        = (ConsumedAfter(Append(args.before, args.token_id)) > 0)
        /\ \A m \in LiveOf("RepeatMatcher") \cup
                    (IF ret.step.a = Again
                     THEN {x \in LiveMatchers(ret.step.self) : x.k = "RepeatMatcher"}
                     ELSE {}) :
              LET r == RepeatMatcher_get_allowed_tokens(ret.rs, m, ret.bc, ret.ac)
                  inner == get_allowed_tokens(ret.rs, m.effective_item, r.bc, r.ac)
              IN ~m.inside => r.rv = [inner.rv EXCEPT !.look_ahead = TRUE]

\* A "*" Repeat at the root went through a whole iteration and one token of
\* the next: inside is true, and it was false, with look_ahead forced on
\* an inner set that did not carry it, when the Repeat was entered.
C30_Witness ==
    /\ pc = "return" /\ args.f = "Matcher.advance"
    /\ ret.entered.k = "RepeatMatcher"
    /\ ret.entered.symbol.mode = "*"
    /\ Len(args.before) = MaxSteps - 1
    /\ ~ret.entered.inside
    /\ ret.allowed.look_ahead
    /\ ~get_allowed_tokens(ret.rs, ret.entered.effective_item, ret.bc, ret.ac).rv.look_ahead
    /\ ret.step.a = Again
    /\ ret.step.self.inside
    /\ ConsumedAfter(Append(args.before, args.token_id)) = 1


\* C31 (look-ahead decoration is applied everywhere): after a successful
\* validation started at root, in every Sequence reachable from root,
\* nested or reached through rule references, in which a Repeat over a
\* RegExp R is immediately followed by an item that resolves to a Terminal
\* T, R.next is T.
C31_DecorationEverywhere ==
    \A s \in SymbolsUnder(rules, rules["root"], {}) :
        s.k = "Sequence" =>
            \A i \in 1 .. Len(s.items) - 1 :
                LET t == resolve(rules, s.items[i + 1])
                IN (s.items[i].k = "Repeat" /\ s.items[i].item.k = "RegExp"
                        /\ t.k = "Terminal") =>
                       s.items[i].item.next = [has |-> TRUE, value |-> t.value]


\* The object reached from id over at most n references: id itself when it
\* is no reference, -1 when a reference names no rule.
RECURSIVE Follow(_, _, _)
Follow(g, id, n) ==
    IF g.objs[id].k # "NonTerminal" \/ n = 0 THEN id
    ELSE IF g.objs[id].name \notin DOMAIN g.names THEN -1
    ELSE Follow(g, g.names[g.objs[id].name], n - 1)

\* C32 (resolve terminates and never yields a reference): on every rule map
\* and every symbol Grammar.resolve returns, and what it returns is a
\* symbol that is not a NonTerminal, the one the references lead to; it
\* raises ValidationError exactly when the references reach a name that is
\* not defined or never leave the references, which is a return to a rule
\* already visited.
C32_ResolveTerminates ==
    (pc = "return" /\ args.f = "resolve") =>
        LET end == Follow(ret.g, ret.id, Len(ret.g.objs))
        IN /\ ret.rv # 0 => ret.g.objs[ret.rv].k # "NonTerminal" /\ ret.rv = end
           /\ ret.rv = 0 <=> (end = -1 \/ ret.g.objs[end].k = "NonTerminal")

\* resolve was called on a reference of its own into three rules that refer
\* to each other in a circle, and raised ValidationError.
C32_Witness ==
    /\ pc = "return" /\ args.f = "resolve"
    /\ "symbol" \in DOMAIN args.symbol
    /\ Len(ret.g.objs) = 4
    /\ \A i \in DOMAIN ret.g.objs : ret.g.objs[i].k = "NonTerminal"
    /\ {ret.g.objs[i].name : i \in 1 .. 3} = DOMAIN ret.g.names
    /\ \A i \in 1 .. 3 : ret.g.names[ret.g.objs[i].name] # i
    /\ ret.rv = 0


\* C33 (the logits processor forces EOS when the template is exhausted):
\* after TemplatingLogitsProcessor is called with no next tag in the
\* template, every token id other than EOS has the score minus infinity.
C33_ExhaustedForcesEos ==
    pc = "masked" =>
        \A i \in TokenIds \ {eos_token_id} : scores[i] = MINUS_INF


\* ------------------------------------------------------------------ C34

\* after is before with nothing moved: the same indexes, live children and
\* inside flags, and every Sequence child that was not entered is either
\* still not entered or a matcher of its symbol as entered.
RECURSIVE SameCursor(_, _, _)
SameCursor(rs, before, after) ==
    /\ after.k = before.k
    /\ after.symbol = before.symbol
    /\ CASE before.k = "TerminalMatcher" -> after.index = before.index
         [] before.k = "SequenceMatcher" ->
              /\ after.index = before.index
              /\ \A i \in DOMAIN before.items :
                    IF before.items[i].k = "None"
                    THEN after.items[i] \in
                            {NoMatcher,
                             enter(rs, resolve(rs, before.symbol.items[i]))}
                    ELSE SameCursor(rs, before.items[i], after.items[i])
         [] before.k = "AlternativeMatcher" ->
              /\ Len(after.items) = Len(before.items)
              /\ \A i \in DOMAIN before.items :
                    SameCursor(rs, before.items[i], after.items[i])
         [] before.k = "RepeatMatcher" ->
              /\ after.inside = before.inside
              /\ SameCursor(rs, before.effective_item, after.effective_item)
         [] OTHER -> TRUE

\* C34: get_allowed_tokens moves no cursor, and however many times it is
\* called between two advance calls (not at all, once or twice), the
\* answers of the later advances and the AllowedTokens returned after them
\* are those of the session that calls it once before each advance.
C34_MaskCallsInert ==
    (pc = "return" /\ args.f = "get_allowed_tokens") =>
        /\ SameCursor(Grammar_validate(Grammars[args.grammar]).rs,
                      ret.entered, ret.self)
        /\ ret.asked = ret.once


\* ------------------------------------------------------------------ C35

\* The matcher a symbol is entered as.
Fresh(symbol) == enter(ret.rs, resolve(ret.rs, symbol))

RECURSIVE StillLive(_, _)
StillLive(items, token_id) ==
    IF items = <<>> THEN <<>>
    ELSE LET r == advance(ret.rs, Head(items), token_id)
         IN (IF r.a = Again THEN <<r.self>> ELSE <<>>)
                \o StillLive(Tail(items), token_id)

\* C36 (no operation on a finished matcher): the matchers a parent calls
\* advance or get_allowed_tokens on are those on its live path.  When the
\* advance of a live matcher answers Again, no child of it that answered
\* Done, Reject or TryNext is on the live path any more: a SequenceMatcher
\* stands behind every child that answered, an AlternativeMatcher holds
\* exactly its children that answered Again, and a RepeatMatcher whose child
\* answered holds a newly entered child.  No AlternativeMatcher on a live
\* path has an empty live set.
C36_FinishedNeverCalled ==
    (pc = "return" /\ args.f = "Matcher.advance") =>
        /\ \A m \in LiveMatchers(ret.self) :
              LET r == advance(ret.rs, m, args.token_id)
              IN r.a = Again =>
                    CASE m.k = "SequenceMatcher" ->
                            LET s == Settles(m, m.index, args.token_id)
                            IN IF s.a = Again THEN r.self.index = s.index
                               ELSE r.self.index > s.index
                      [] m.k = "AlternativeMatcher" ->
                            r.self.items = StillLive(m.items, args.token_id)
                      [] m.k = "RepeatMatcher" ->
                            advance(ret.rs, m.effective_item, args.token_id).a # Again
                                => r.self.effective_item = Fresh(m.symbol.item)
                      [] OTHER -> TRUE
        /\ \A m \in LiveMatchers(ret.self)
                      \cup (IF ret.step.a = Again THEN LiveMatchers(ret.step.self)
                            ELSE {}) :
              m.k = "AlternativeMatcher" => m.items # <<>>

\* An AlternativeMatcher of two children was advanced on a token one child
\* answered with Done and the other with Again: it answers Again and holds
\* the second child alone.
C36_Witness ==
    /\ pc = "return" /\ args.f = "Matcher.advance"
    /\ ret.self.k = "AlternativeMatcher"
    /\ Len(ret.self.items) = 2
    /\ advance(ret.rs, ret.self.items[1], args.token_id).a = Done
    /\ advance(ret.rs, ret.self.items[2], args.token_id).a = Again
    /\ ret.step.a = Again
    /\ ret.step.self.items
          = <<advance(ret.rs, ret.self.items[2], args.token_id).self>>


\* ------------------------------------------------------------------ C37

\* C37 (RepeatTag repeats exactly 'times' times): fed the tokens its
\* children accept, a repeat tag with times = N, N at least 1, returns 0 on
\* the token that completes the N-th match of its children and a positive
\* value on every token before it; a repeat tag without times never
\* returns 0.
C37_RepeatTimes ==
    (pc = "return" /\ args.f = "RepeatTag.accepts") =>
        IF "times" \in DOMAIN args.attrs
        THEN LET N == int(args.attrs.times)
             IN N >= 1 =>
                    \A i \in DOMAIN ret.rv :
                        /\ ret.rv[i] = 0 <=> i = N * ret.pass
                        /\ i < N * ret.pass => ret.rv[i] > 0
        ELSE \A i \in DOMAIN ret.rv : ret.rv[i] # 0


\* ------------------------------------------------------------------ C38

\* C38 (caching is transparent): at every point of a session, for every
\* live Terminal and RegExp matcher, the AllowedTokens get_allowed_tokens
\* returns with the caches as they stand is the one it returns with empty
\* caches, computed from the symbol's own value or pattern, its own next
\* terminal and the token dictionary.
C38_CacheTransparent ==
    \A m \in LiveMatchers(active) :
        /\ m.k = "RegExpMatcher" =>
              RegExpMatcher_get_allowed_tokens(m, banned_cache, allowed_cache).rv
                  = RegExpMatcher_get_allowed_tokens(m, NoCache, NoCache).rv
        /\ m.k = "TerminalMatcher" =>
              get_allowed_tokens(rules, m, banned_cache, allowed_cache).rv
                  = get_allowed_tokens(rules, m, NoCache, NoCache).rv


\* ------------------------------------------------------------------ C39

\* No vocabulary token qualifies for the matcher: a Terminal or a positive
\* RegExp whose allowed set is empty, or an Alternative whose live children
\* are all of that kind.
RECURSIVE NothingQualifies(_)
NothingQualifies(m) ==
    CASE m.k = "TerminalMatcher" -> TerminalMatcher_get_allowed_tokens(m).allowed = {}
      [] m.k = "RegExpMatcher" ->
            ~m.symbol.negative /\ compute_allowed(m.symbol) = {}
      [] m.k = "AlternativeMatcher" ->
            m.items # <<>> /\ \A i \in DOMAIN m.items : NothingQualifies(m.items[i])
      [] OTHER -> FALSE

\* C39 (an empty positive set masks everything): for every live matcher for
\* which no vocabulary token qualifies, applying the AllowedTokens its
\* get_allowed_tokens returns leaves no token other than EOS with a finite
\* score.
C39_EmptySetMasksAll ==
    \A m \in LiveMatchers(active) :
        NothingQualifies(m) =>
            Finite(apply(get_allowed_tokens(rules, m, banned_cache, allowed_cache).rv,
                         RawScores)) \ {eos_token_id} = {}


\* ------------------------------------------------------------------ C40

\* The tokens emitted are single characters other than EOS: each lies
\* inside one terminal or one character class of any sentence they spell.
SingleCharacters ==
    \A i \in DOMAIN emitted :
        emitted[i] # eos_token_id /\ Len(d[emitted[i]]) = 1

\* C40 (completeness): when the tokens advanced since construction or reset
\* spell a sentence of the grammar and each lies inside one terminal or one
\* character class, every one of them was unmasked at its step, the last
\* was accepted, and the root has answered Done or the mask computed next
\* leaves EOS finite.
C40_Completeness ==
    (pc = "mask" /\ emitted # <<>> /\ Sentence /\ SingleCharacters) =>
        /\ unmasked
        /\ last.called /\ last.a \in {Again, Done}
        /\ \/ last.a = Done
           \/ eos_token_id \in Mask(Session(active, banned_cache, allowed_cache, last.a))

====
